---- MODULE Spec2Model ----
(***************************************************************************)
(* A model of twlived: the segment fetcher and the download manager        *)
(* (twlived/downloader/manager.py, playlist.py), the in-process event bus  *)
(* (twlived/utils/pubsub.py), the stream trackers (twlived/tracker), the   *)
(* stream downloader (twlived/downloader/stream_downloader.py), the paging *)
(* of get_videos and parse_duration (twlived/twitch/adapters.py), the      *)
(* Helix client's request loop and its token bucket                        *)
(* (twlived/twitch/helix.py), the retry wrapper (twlived/utils/utils.py)   *)
(* and the event metaclass (twlived/utils/pubsub.py).                      *)
(*                                                                         *)
(* Each component has its own specification over the shared variables; a   *)
(* specification leaves the variables of the other components unchanged.   *)
(* A call `await self.publish(e)` is modelled by what Publisher.publish    *)
(* does (a synchronous Provider.notify); it either returns or lets the     *)
(* exception of a subscriber's handler through to the caller.              *)
(***************************************************************************)
EXTENDS Integers, Sequences, FiniteSets, TLC

\* ------------------------------------------------------------------ bounds
\* Longest playlist / input list of segments.
MaxLen == 3
\* Largest concurrent_downloads argument tried on download_segments alone.
MaxConc == 2
\* Failed fetch attempts in one run.
MaxFetchErrors == 2
\* Segments written to one file before the model stops the download.
MaxFile == 4
\* Registrations held by the provider at one time.
MaxRegs == 2
\* Events published on the bus in one run.
MaxPublish == 2
\* Webhook notifications being handled at one time.
MaxInflight == 2
\* The lease time of a webhook subscription, in clock ticks.
LeaseTicks == 2
\* StreamOnline events handled by the stream downloader in one run.
MaxEvents == 3
\* Highest media-sequence number at which a live playlist snapshot starts.
MaxSeq == 3
\* Longest live playlist snapshot.
SnapLen == 2
\* Largest limit argument of get_videos.
MaxLimit == 111
\* Most videos of the requested type a channel has.
MaxVideos == 111
\* Pages one call of get_videos is followed through.
MaxPages == 3
\* Largest numbers of hours, minutes and seconds in a duration string.
MaxHours == 25
MaxMinutes == 2
MaxSeconds == 2
\* Event classes defined in one run, BaseEvent included.
MaxClasses == 8
\* Bases of one class statement.
MaxBases == 2
\* Longest snapshot a TwitchLivePlaylist is updated with on its own.
MaxWindow == 3
\* Segments a TwitchLivePlaylist is fed beyond MAX_SEGMENTS.
MaxOver == 3
\* Largest max_tries a wrapped coroutine is called with.
MaxTries == 10
\* Polls of wait_for_vod that find no video before the model stops polling.
MaxPolls == 2
\* Videos one poll of wait_for_vod lists.
MaxListed == 2
\* Coroutines that call TokenBucket.acquire in one run.
MaxCoros == 3
\* Largest Ratelimit-Remaining a response reports.
MaxRemaining == 2
\* Latest Ratelimit-Reset a response reports; the bucket is created at time 0.
MaxReset == 2
\* Latest clock tick of the Helix client's run.
MaxTime == 2
\* Largest expires_in of an app token, in clock ticks.
MaxExpiresIn == 3
\* Times one request is sent before the model lets no further 429 answer it.
MaxSends == 3

\* ------------------------------------------------------- program constants
N_CONCURRENT_DOWNLOADS == 10
PLAYLIST_UPDATES_TO_FINISH == 10
\* max_tries of the retry wrapper around download_segment
SEGMENT_MAX_TRIES == 2

\* Python's None where an Optional[int] is expected.
None == 0 - 1

\* Python truthiness of an Optional[int]: None and 0 are false.
Truthy(x) == x # None /\ x # 0

Min(a, b) == IF a < b THEN a ELSE b

Count(x, l) == Cardinality({i \in 1..Len(l) : l[i] = x})

VARIABLES
    \* download_segments: one call
    ds_pc,          \* "idle" | "wait" (inside wait_group) | "returned"
    ds_segments,    \* the input list: segment numbers, the body of n is n
    ds_conc,        \* concurrent_downloads
    ds_pos,         \* offset of the current chunk in ds_segments
    ds_tasks,       \* the tasks of the current chunk: [st, tries]
    ds_last,        \* last_successful_segment
    file,           \* output_file: the segment bodies written, in order
    \* history of the call
    ds_failed,      \* positions of ds_segments whose fetch failed for good
    ds_chunks,      \* chunks started (task_group calls)
    ds_ooo,         \* a fetch completed before an earlier one of its chunk
    ds_base,        \* Len(file) when the call began
    fetchErrors,    \* failed fetch attempts so far
    \* download_archive
    dm_pc,          \* "idle" | "loop" | "ds" | "done" | "raised"
    pl_len,         \* TwitchVODPlaylist._segments = enumerate(files): 0..pl_len-1
    pl_endlist,     \* m3u8.is_endlist
    pl_periodic,    \* start_periodic_update was called
    after_segment,  \* the resume cursor argument
    last_segment,   \* the cursor of the loop
    exist_buf,      \* the deque of fails_in_row
    is_recording,   \* is_video_recording
    dm_events,      \* events published by the manager
    dm_order,       \* progress callbacks against the events: [before_begin, after_end],
                    \* and grown: the playlist got longer after the first update
    dm_check,       \* the latest loop check: [streak, recording, ended], streak being
                    \* the checks in a row that found nothing to load
    \* the event bus: one Provider and the clients connected to it
    subscribers,    \* Provider.subscribers: event type -> list of subscribers
    bus_pc,         \* "idle" | "notify" (Provider.notify is running)
    n_event,        \* the event notify was called with (NoEvent outside notify)
    n_idx,          \* position in subscribers[type(event)] of the for loop
    h_running,      \* the subscriber whose handle() is running, or "none"
    pub_count,      \* events published so far, per publisher
    \* history of the bus
    seen,           \* per subscriber and publisher, the number of the last event handled
    in_sequence,    \* a handler was invoked with a second event of one publisher
    delivered,      \* the subscribers invoked by the running notify, in order
    pub_result,     \* how the latest publish ended: "none" | "pending" | "returned" | "raised"
    h_raised,       \* the latest publish ended by a handler's exception
    missed,         \* subscribers of the list that publish never called
    round_trip,     \* a subscribe(X), the unsubscribe(X) after it, and what was before
    \* a stream tracker
    tr_kind,        \* the class: "regular" (RegularTracker) | "webhook" (WebhookTracker)
    tr_pc,          \* run(): "new" | "running" | "returned" | "raised"
    is_running,     \* _is_running
    is_channel_online, \* RegularTracker._is_channel_online
    tr_last_event,  \* _last_event: channel -> event or NoStatus
    posts,          \* on_streams_post handlers in flight, in order of arrival
    \* history of the tracker: the latest handler run (a poll, a notification)
    tr_observed,    \* the channels it observed
    obs_last,       \* per channel, the stream of the latest observation
    obs_prev,       \* per channel, the stream of the observation before
    tr_out,         \* the events it handed to publish, in order
    online_open,    \* per channel: StreamOnline published, no StreamOffline since
    open_before,    \* online_open before the run
    last_before,    \* _last_event before the run
    last_pub,       \* per channel, the latest event handed to publish
    tr_error,       \* what ended run() with an exception: "none" | "publish" | "query"
    \* the HTTP server of the webhook tracker
    subscription_statuses, \* _subscription_statuses: "None" | "subscribed" | "unsubscribed"
    event_ids,      \* _event_ids
    wh_site,        \* the site: "down" | "up" | "closed"
    stop_pc,        \* stop(): "none" | "cleanup" | "returned" | "raised"
    unsub_posted,   \* channels stop() posted an unsubscribe request for
    \* history of the server: the latest request answered
    wh_req,         \* the request
    wh_response,    \* the status of the response
    handled,        \* per notification id, the notification given to stream_info_to_event
    ids_before,     \* _event_ids before the request
    statuses_before, \* _subscription_statuses before the request
    \* the renewal task of the webhook tracker (_update_webhook)
    rn_pc,          \* "none" | "register" | "wait" | "sleep" | "dead"
    rn_sleep,       \* ticks left of asyncio.sleep(self._lease_time)
    since_subscribe, \* per channel, ticks since its latest subscribe request (Unknown: none)
    \* TwitchStreamDownloader
    sd_stream_type, \* stream_type: "LIVE" | "VOD"
    downloading_streams, \* _downloading_streams, as a set of (channel_id, started_at) keys
    sd_handlers,    \* handle(StreamOnline) coroutines in progress: [key, st]
    tmp_files,      \* temporary files created
    \* history of the downloader
    sd_events,      \* per key, StreamOnline events handled
    sd_started,     \* per key, handlers that went past the check
    dm_invoked,     \* per key, calls of the download manager
    sd_last,        \* the latest event handled: [key, was_downloading, started]
    sd_returned,    \* per key, downloads that returned
    sd_raised,      \* per key, downloads (or waits for the VOD) that raised
    finalizer_calls, \* per key, calls of the storage with the result of a download
    \* download_live and its TwitchLivePlaylist
    lv_pc,          \* "idle" | "loop" | "ds" | "done" | "raised"
    lv_segments,    \* TwitchLivePlaylist._segments: the numbers stored
    lv_endlist,     \* m3u8.is_endlist of the playlist fetched last
    lv_task,        \* the periodic update task: "none" | "alive" | "finished" | "dead"
    lv_last_segment, \* the cursor of the loop
    lv_events,      \* events published by download_live
    \* history of download_live
    lv_gap,         \* an update found first_n > last_n + 1
    lv_error,       \* what ended download_live with an exception
    \* a call of get_segments_after on a view
    vw_kind,        \* "vod" | "live"
    vw_marker,      \* the segment argument
    vw_result,      \* [raised, segments], or NoResult before the call
    \* get_videos of an adapter: the videos of the channel are 1..gv_total
    gv_adapter,     \* "v5" (TwitchAPIv5Adapter) | "helix" (TwitchAPIHelixAdapter)
    gv_limit,       \* the limit argument
    gv_total,       \* videos of the requested type the channel has
    gv_pc,          \* "idle" | "paging" | "returned"
    gv_gen,         \* offset_generator: [offset, remaining, endless]
    gv_cursor,      \* cursor of the Helix adapter: a position, or None
    gv_videos,      \* videos: the pages extended with, each [start, count]
    \* history of the call
    gv_requested,   \* the sum of the page sizes requested
    gv_largest,      \* the largest page size requested
    \* TwitchAPIHelix: the app token and one _request call at a time
    hx_secret,      \* client_secret is configured
    hx_token,       \* _app_access_token.expires, or None for no token
    hx_now,         \* time()
    hx_pc,          \* "idle" | "loop" | "request" | "authorize" | "returned" | "raised"
    hx_tries,       \* tries of _request
    \* history of the latest call
    hx_call,        \* [backoffs, answers, reauths, auth_failed]
    hx_tok,          \* the latest read of access_token: [cached, authorized, returned]
    \* TokenBucket and the coroutines of _limited_request
    tb_tokens,      \* _tokens
    tb_reset,       \* _tokens_reset
    tb_waiters,     \* _waiters: the coroutines whose future is pending, in order
    tb_timer,       \* a _reset_token_task is waiting for its timer
    tb_coro,        \* per coroutine: "idle" | "waiting" | "woken" | "holding" | "done" | "failed"
    \* history of the bucket
    tb_hist,         \* [left, admitted, fired] since the latest update_tokens call
    \* TwitchStreamDownloader.download in VOD mode, for one StreamOnline event
    wv_started_at,  \* event.started_at, in seconds
    wv_pc,          \* "idle" | "poll" | "sleep" | "archive" | "raised"
    wv_listing,     \* videos of the latest poll, each [id, created_at]
    wv_vod,         \* the id download_archive was called with, or None
    \* history of the download
    wv_hist,         \* [polls, nomatch, awaiting, sleeps]
    \* one call of a coroutine wrapped by retry_on_exception(ClientResponseError, max_tries=rt_max)
    rt_max,         \* max_tries
    rt_task,        \* the call: [st, tries], st "pending" | "done" | "failed"
    \* history of the call
    rt_hist,         \* [last, listed]: the outcome of the latest attempt, attempts that raised a listed exception
    \* history of a TwitchLivePlaylist updated on its own (lv_segments)
    lp_prev,        \* before the latest update: [len, last] of _segments
    lp_call,         \* the latest update: [first_n, count, raised], or NoUpdateCall
    \* the event classes created by BaseEventMeta
    ev_classes,     \* the classes, each [level, max]; the first one is BaseEvent
    ev_last,         \* the latest class statement: [bases, level, raised], or NoStatement
    \* parse_duration on one string
    pd_string,      \* the string [<H>h][<M>m][<S>s], as [hours, minutes, seconds]; None: no such part
    pd_result       \* [raised, value], or NoParse before the call

dsVars == <<ds_pc, ds_segments, ds_conc, ds_pos, ds_tasks, ds_last, file,
            ds_failed, ds_chunks, ds_ooo, ds_base, fetchErrors>>
dmVars == <<dm_pc, pl_len, pl_endlist, pl_periodic, after_segment, last_segment,
            exist_buf, is_recording, dm_events, dm_check, dm_order>>
busVars == <<subscribers, bus_pc, n_event, n_idx, h_running, pub_count,
             seen, in_sequence, delivered, pub_result, h_raised, missed, round_trip>>
trVars == <<tr_kind, tr_pc, is_running, is_channel_online, tr_last_event, posts,
            tr_observed, obs_last, obs_prev, tr_out, online_open, open_before,
            last_before, last_pub, tr_error>>
whVars == <<subscription_statuses, event_ids, wh_site, stop_pc, unsub_posted,
            wh_req, wh_response, handled, ids_before, statuses_before>>
rnVars == <<rn_pc, rn_sleep, since_subscribe>>
sdVars == <<sd_stream_type, downloading_streams, sd_handlers, tmp_files,
            sd_events, sd_started, dm_invoked, sd_last, sd_returned, sd_raised,
            finalizer_calls>>
lvVars == <<lv_pc, lv_segments, lv_endlist, lv_task, lv_last_segment, lv_events,
            lv_gap, lv_error>>
vwVars == <<vw_kind, vw_marker, vw_result>>
gvVars == <<gv_adapter, gv_limit, gv_total, gv_pc, gv_gen, gv_cursor, gv_videos,
            gv_requested, gv_largest>>
hxVars == <<hx_secret, hx_token, hx_now, hx_pc, hx_tries, hx_call, hx_tok>>
tbVars == <<tb_tokens, tb_reset, tb_waiters, tb_timer, tb_coro, tb_hist>>
wvVars == <<wv_started_at, wv_pc, wv_listing, wv_vod, wv_hist>>
rtVars == <<rt_max, rt_task, rt_hist>>
lpVars == <<lp_prev, lp_call>>
evVars == <<ev_classes, ev_last>>
pdVars == <<pd_string, pd_result>>
vars == <<dsVars, dmVars, busVars, trVars, whVars, rnVars, sdVars, lvVars, vwVars, gvVars, hxVars, tbVars, wvVars, rtVars, lpVars, evVars, pdVars>>

\* ------------------------------------------------------ download_segments

\* A slice that is one element too long.
chunked_overlap(l, pos, chunk_size) == SubSeq(l, pos + 1, Min(pos + chunk_size + 1, Len(l)))

\* chunked(l, chunk_size): the chunk that starts at offset pos.
chunked(l, pos, chunk_size) == SubSeq(l, pos + 1, Min(pos + chunk_size, Len(l)))

\* task_group: one pending task per segment of the chunk.
task_group(chunk) == [i \in 1..Len(chunk) |-> [st |-> "pending", tries |-> 0]]

\* A wrapper that gives up one attempt late.
retry_past_max(task, outcome, max_tries) ==
    LET tries == task.tries + 1 IN
    CASE outcome = "ok" -> [st |-> "done", tries |-> tries]
      [] outcome = "ClientResponseError" ->
            IF tries > max_tries THEN [st |-> "failed", tries |-> tries]
            ELSE [st |-> "pending", tries |-> tries]
      [] OTHER -> [st |-> "failed", tries |-> tries]

\* retry_on_exception(ClientResponseError, max_tries): one more attempt of a
\* task with the given outcome.
retry_on_exception(task, outcome, max_tries) ==
    LET tries == task.tries + 1 IN
    CASE outcome = "ok" -> [st |-> "done", tries |-> tries]
      [] outcome = "ClientResponseError" ->
            IF tries = max_tries THEN [st |-> "failed", tries |-> tries]
            ELSE [st |-> "pending", tries |-> tries]
      [] OTHER -> [st |-> "failed", tries |-> tries]

FetchOutcomes == {"ok", "ClientResponseError", "ClientPayloadError"}

\* takewhile(lambda t: not (t.cancelled() or t.exception()), tasks): how many
\* leading tasks have a result.
takewhile_ok(tasks) ==
    LET bad == {i \in 1..Len(tasks) : tasks[i].st # "done"} IN
    IF bad = {} THEN Len(tasks)
    ELSE (CHOOSE i \in bad : \A j \in bad : i <= j) - 1

\* wait_group cancels what asyncio.wait returned as not done.
cancel_pending(tasks) ==
    [i \in 1..Len(tasks) |->
        IF tasks[i].st = "pending" THEN [tasks[i] EXCEPT !.st = "cancelled"]
        ELSE tasks[i]]

\* The for loop reaches the chunk at offset pos: its tasks are created and
\* awaited, or the list is exhausted and the call returns.
ForChunk(pos, segments, conc) ==
    IF pos < Len(segments)
    THEN /\ ds_pc' = "wait"
         /\ ds_pos' = pos
         /\ ds_tasks' = task_group(chunked(segments, pos, conc))
         /\ ds_chunks' = ds_chunks + 1
    ELSE /\ ds_pc' = "returned"
         /\ ds_pos' = pos
         /\ ds_tasks' = <<>>
         /\ ds_chunks' = ds_chunks

\* download_segments(segments, output_file, concurrent_downloads=conc) is called.
download_segments(segments, conc) ==
    /\ ds_segments' = segments
    /\ ds_conc' = conc
    /\ ds_last' = None
    /\ ds_failed' = {}
    /\ ds_ooo' = FALSE
    /\ ds_base' = Len(file)
    /\ ds_chunks' = IF Len(segments) > 0 THEN 1 ELSE 0
    /\ IF Len(segments) > 0
       THEN /\ ds_pc' = "wait"
            /\ ds_pos' = 0
            /\ ds_tasks' = task_group(chunked(segments, 0, conc))
       ELSE /\ ds_pc' = "returned"
            /\ ds_pos' = 0
            /\ ds_tasks' = <<>>
    /\ UNCHANGED <<file, fetchErrors>>

\* One attempt of the i-th fetch of the chunk ends.
FetchAttempt(i, outcome) ==
    /\ ds_pc = "wait"
    /\ i \in 1..Len(ds_tasks)
    /\ ds_tasks[i].st = "pending"
    /\ outcome # "ok" => fetchErrors < MaxFetchErrors
    /\ LET t == retry_on_exception(ds_tasks[i], outcome, SEGMENT_MAX_TRIES) IN
        /\ ds_tasks' = [ds_tasks EXCEPT ![i] = t]
        /\ ds_failed' = IF t.st = "failed" THEN ds_failed \cup {ds_pos + i} ELSE ds_failed
        /\ ds_ooo' = (ds_ooo \/ (t.st = "done" /\ \E j \in 1..(i - 1) : ds_tasks[j].st = "pending"))
    /\ fetchErrors' = IF outcome = "ok" THEN fetchErrors ELSE fetchErrors + 1
    /\ UNCHANGED <<ds_pc, ds_segments, ds_conc, ds_pos, ds_last, file, ds_chunks, ds_base>>

\* asyncio.wait(tasks, return_when=FIRST_EXCEPTION) returns: a task has
\* raised, or every task is done. The rest of the loop body runs.
WaitGroupReturn ==
    /\ ds_pc = "wait"
    /\ \/ \E i \in 1..Len(ds_tasks) : ds_tasks[i].st = "failed"
       \/ \A i \in 1..Len(ds_tasks) : ds_tasks[i].st # "pending"
    /\ LET cancelled_tasks == {i \in 1..Len(ds_tasks) : ds_tasks[i].st = "pending"}
           tasks == cancel_pending(ds_tasks)
           chunk == chunked(ds_segments, ds_pos, ds_conc)
           k == takewhile_ok(tasks)
       IN /\ file' = file \o SubSeq(chunk, 1, k)
          /\ ds_last' = IF k > 0 THEN chunk[k] ELSE ds_last
          /\ IF cancelled_tasks # {}
             THEN /\ ds_pc' = "returned"
                  /\ ds_tasks' = tasks
                  /\ UNCHANGED <<ds_pos, ds_chunks>>
             ELSE ForChunk(ds_pos + ds_conc, ds_segments, ds_conc)
    /\ UNCHANGED <<ds_segments, ds_conc, ds_failed, ds_ooo, ds_base, fetchErrors>>

\* What the call has written.
ds_written == SubSeq(file, ds_base + 1, Len(file))

\* The lists get_segments_after returns: runs of consecutive numbers.
Run(first, n) == [i \in 1..n |-> first + i - 1]

DsIdle ==
    /\ ds_pc = "idle" /\ ds_pos = 0 /\ ds_tasks = <<>> /\ ds_last = None
    /\ file = <<>> /\ ds_failed = {} /\ ds_chunks = 0 /\ ds_ooo = FALSE
    /\ ds_base = 0 /\ fetchErrors = 0

NoCheck == [streak |-> 0, recording |-> FALSE, ended |-> FALSE]

NoProgress == [before_begin |-> FALSE, after_end |-> FALSE, grown |-> FALSE]

DmIdle ==
    /\ dm_pc = "idle" /\ pl_len = 0 /\ pl_endlist = FALSE /\ pl_periodic = FALSE
    /\ after_segment = None /\ last_segment = None
    /\ exist_buf = <<>> /\ is_recording = FALSE /\ dm_events = <<>>
    /\ dm_check = NoCheck
    /\ dm_order = NoProgress

\* -------------------------------------------------------- download_archive

\* TwitchVODPlaylist.get_segments_after over _segments = enumerate(files).
vod_get_segments_after(len, segment) ==
    IF segment = None THEN Run(0, len)
    ELSE IF segment + 1 > len - 1 THEN <<>>
    ELSE SubSeq(Run(0, len), segment + 2, len)

\* self._segments[-1] of an empty list raises IndexError.
vod_index_error(len, segment) == segment # None /\ len = 0

\* fails_in_row(num): the deque before the first send.
fails_in_row(num) == [i \in 1..num |-> TRUE]

\* generator.send(value): the value is appended to the bounded deque.
fails_in_row_send(buffer, new_value) == Append(Tail(buffer), new_value)

\* A generator that yields the newest value only.
fails_in_row_newest(buffer) == buffer[Len(buffer)]

\* What the generator yields: reduce(operator.ior, buffer).
fails_in_row_yield(buffer) == \E i \in 1..Len(buffer) : buffer[i]

\* Publisher.publish -> Provider.notify: the call returns, or a handler's
\* exception reaches the caller.
PublishOutcomes == {"returned", "raised"}

\* The cursor after download_segments returned last_successful_n.
next_cursor(cursor, last_successful_n) ==
    IF Truthy(last_successful_n) THEN last_successful_n ELSE cursor

\* download_archive up to its loop (lines 33-50); playlist.update at line 37
\* reports the length of the playlist to the progress callback.
DmStart(len, endlist, recording, after, out) ==
    /\ dm_pc = "idle"
    /\ dm_order' = [dm_order EXCEPT !.before_begin = TRUE]
    /\ pl_len' = len
    /\ pl_endlist' = endlist
    /\ after_segment' = after
    /\ is_recording' = recording
    /\ IF vod_index_error(len, after) \/ vod_get_segments_after(len, after) = <<>>
       THEN /\ dm_pc' = "raised"
            /\ UNCHANGED <<pl_periodic, last_segment, exist_buf, dm_events>>
       ELSE /\ pl_periodic' = recording
            /\ exist_buf' = fails_in_row(PLAYLIST_UPDATES_TO_FINISH)
            /\ dm_events' = Append(dm_events, "BeginDownloading")
            /\ last_segment' = IF out = "returned" THEN after ELSE last_segment
            /\ dm_pc' = IF out = "returned" THEN "loop" ELSE "raised"
    /\ UNCHANGED <<dsVars, dm_check>>

\* periodic_update of start_periodic_update: the playlist is fetched again
\* while it has no endlist, and its length reported to the progress
\* callback; nothing stops the task when download_archive ends. A VOD
\* playlist only grows.
PeriodicUpdate(len, endlist) ==
    /\ dm_pc \in {"loop", "ds", "done", "raised"}
    /\ pl_periodic /\ ~pl_endlist
    /\ len >= pl_len
    /\ pl_len' = len
    /\ pl_endlist' = endlist
    /\ dm_order' = [dm_order EXCEPT !.after_end = @ \/ Count("EndDownloading", dm_events) > 0,
                                    !.grown = @ \/ len # pl_len]
    /\ UNCHANGED <<dm_pc, pl_periodic, after_segment, last_segment, exist_buf,
                   is_recording, dm_events, dm_check>>
    /\ UNCHANGED dsVars

\* The head of the while loop (lines 52-63): the loop ends, or
\* download_segments is called.
DmLoopTop(out) ==
    /\ dm_pc = "loop"
    /\ Len(file) < MaxFile
    /\ LET segments_to_load == vod_get_segments_after(pl_len, last_segment)
           buffer == fails_in_row_send(exist_buf, segments_to_load # <<>>)
       IN /\ exist_buf' = buffer
          /\ dm_check' = [streak |-> IF segments_to_load # <<>> THEN 0
                                     ELSE Min(dm_check.streak + 1, PLAYLIST_UPDATES_TO_FINISH),
                          recording |-> is_recording,
                          ended |-> ~(fails_in_row_yield(buffer) \/ is_recording)]
          /\ IF ~(fails_in_row_yield(buffer) \/ is_recording)
             THEN /\ dm_events' = Append(dm_events, "EndDownloading")
                  /\ dm_pc' = IF out = "returned" THEN "done" ELSE "raised"
                  /\ UNCHANGED dsVars
             ELSE /\ out = "returned"
                  /\ download_segments(segments_to_load, N_CONCURRENT_DOWNLOADS)
                  /\ dm_pc' = "ds"
                  /\ UNCHANGED dm_events
    /\ UNCHANGED <<pl_len, pl_endlist, pl_periodic, after_segment, last_segment, is_recording,
                   dm_order>>

\* The rest of the loop body once download_segments has returned (lines 64-74).
DmAfterSegments(len, endlist, recording, update_ok) ==
    /\ dm_pc = "ds"
    /\ ds_pc = "returned"
    /\ last_segment' = next_cursor(last_segment, ds_last)
    /\ IF ~Truthy(ds_last) /\ ds_segments # <<>>
       THEN \* playlist.update(use_old_url=False)
            IF update_ok
            THEN /\ len >= pl_len
                 /\ pl_len' = len
                 /\ pl_endlist' = endlist
                 /\ dm_pc' = "loop"
            ELSE /\ len = pl_len /\ endlist = pl_endlist
                 /\ dm_pc' = "raised"
                 /\ UNCHANGED <<pl_len, pl_endlist>>
       ELSE /\ update_ok /\ len = pl_len /\ endlist = pl_endlist
            /\ dm_pc' = "loop"
            /\ UNCHANGED <<pl_len, pl_endlist>>
    /\ dm_order' = [dm_order EXCEPT !.grown = @ \/ pl_len' # pl_len]
    /\ is_recording' = recording
    /\ ds_pc' = "idle"
    /\ UNCHANGED <<ds_segments, ds_conc, ds_pos, ds_tasks, ds_last, file,
                   ds_failed, ds_chunks, ds_ooo, ds_base, fetchErrors>>
    /\ UNCHANGED <<pl_periodic, after_segment, exist_buf, dm_events, dm_check>>

\* ---------------------------------------------------------- the event bus

\* The event classes of twlived/tracker/base.py and their base classes.
EventTypes == {"BaseEvent", "StreamChanged", "StreamOnline", "StreamOffline"}

Parent(t) ==
    CASE t = "StreamOnline" -> "StreamChanged"
      [] t = "StreamChanged" -> "BaseEvent"
      [] t = "StreamOffline" -> "BaseEvent"
      [] OTHER -> "object"

\* type(e).__mro__ without object.
Ancestors(t) ==
    {t} \cup (IF Parent(t) = "object" THEN {} ELSE {Parent(t)})
        \cup (IF Parent(t) = "object" \/ Parent(Parent(t)) = "object" THEN {}
              ELSE {Parent(Parent(t))})

Subscribers == {"s1", "s2"}
Publishers == {"p1", "p2"}

NoEvent == [pub |-> "none", n |-> 0, type |-> "none"]

\* The registrations of the subscribers other than s.
Others(subs, s) == [t \in EventTypes |-> SelectSeq(subs[t], LAMBDA y : y # s)]

NoRoundTrip == [phase |-> "none", s |-> "none", x |-> "none", count |-> 0,
                others |-> [t \in EventTypes |-> <<>>]]

\* A removal that drops every occurrence.
list_remove_all(l, x) == SelectSeq(l, LAMBDA y : y # x)

\* list.remove(x): the first occurrence of x is removed.
list_remove(l, x) ==
    LET i == CHOOSE k \in 1..Len(l) : l[k] = x /\ \A j \in 1..(k - 1) : l[j] # x
    IN SubSeq(l, 1, i - 1) \o SubSeq(l, i + 1, Len(l))

\* An invocation with the event published before the last one handled.
invoke_older(last, n) == IF last > 0 THEN last - 1 ELSE n

\* subscriber.handle(event): the handler is invoked with the event that
\* notify was called with. last is the number of the publisher's event the
\* handler was invoked with before (0: none), n the number of this one.
invoke_handle(last, n) == n

Registrations == Len(subscribers["BaseEvent"]) + Len(subscribers["StreamChanged"])
                 + Len(subscribers["StreamOnline"]) + Len(subscribers["StreamOffline"])

Published == pub_count["p1"] + pub_count["p2"]

\* Provider() with its clients connected and nothing subscribed.
BusIdle ==
    /\ subscribers = [t \in EventTypes |-> <<>>]
    /\ bus_pc = "idle"
    /\ n_event = NoEvent
    /\ n_idx = 0
    /\ h_running = "none"
    /\ pub_count = [p \in Publishers |-> 0]
    /\ seen = [s \in Subscribers |-> [p \in Publishers |-> 0]]
    /\ in_sequence = FALSE
    /\ delivered = <<>>
    /\ pub_result = "none"
    /\ h_raised = FALSE
    /\ missed = 0
    /\ round_trip = NoRoundTrip

\* Subscriber.subscribe(event_type) -> Provider.subscribe. The record of
\* how the latest publish ended is dropped when the registrations change.
subscribe(s, event_type) ==
    /\ bus_pc = "idle"
    /\ Registrations < MaxRegs
    /\ subscribers' = [subscribers EXCEPT ![event_type] = Append(@, s)]
    /\ round_trip' = [phase |-> "sub", s |-> s, x |-> event_type,
                      count |-> Count(s, subscribers[event_type]),
                      others |-> Others(subscribers, s)]
    /\ pub_result' = "none" /\ h_raised' = FALSE /\ missed' = 0
    /\ UNCHANGED <<bus_pc, n_event, n_idx, h_running, pub_count, seen, in_sequence, delivered>>

\* Subscriber.unsubscribe(event_type) -> Provider.unsubscribe: list.remove
\* raises ValueError when the subscriber is not in the list.
unsubscribe(s, event_type) ==
    /\ bus_pc = "idle"
    /\ IF Count(s, subscribers[event_type]) > 0
       THEN /\ subscribers' = [subscribers EXCEPT ![event_type] = list_remove(@, s)]
            /\ round_trip' = IF round_trip.phase = "sub" /\ round_trip.s = s
                                /\ round_trip.x = event_type
                             THEN [round_trip EXCEPT !.phase = "unsub"]
                             ELSE NoRoundTrip
       ELSE /\ round_trip' = NoRoundTrip
            /\ UNCHANGED subscribers
    /\ pub_result' = "none" /\ h_raised' = FALSE /\ missed' = 0
    /\ UNCHANGED <<bus_pc, n_event, n_idx, h_running, pub_count, seen, in_sequence, delivered>>

\* Publisher.publish(event) -> Provider.notify(event), up to the first
\* handler: a BaseEvent instance raises TypeError.
publish(p, event_type) ==
    /\ bus_pc = "idle"
    /\ Published < MaxPublish
    /\ pub_count' = [pub_count EXCEPT ![p] = @ + 1]
    /\ h_raised' = FALSE
    /\ missed' = 0
    /\ IF event_type = "BaseEvent"
       THEN /\ pub_result' = "raised"
            /\ round_trip' = NoRoundTrip
            /\ UNCHANGED <<bus_pc, n_event, n_idx>>
       ELSE /\ pub_result' = "pending"
            /\ bus_pc' = "notify"
            /\ n_event' = [pub |-> p, n |-> pub_count[p] + 1, type |-> event_type]
            /\ n_idx' = 1
            /\ round_trip' = IF round_trip.phase = "unsub" THEN round_trip
                             ELSE NoRoundTrip
    /\ UNCHANGED <<subscribers, h_running, seen, in_sequence, delivered>>

\* The for loop of notify calls the next subscriber's handle(event).
HandlerStart ==
    /\ bus_pc = "notify"
    /\ h_running = "none"
    /\ n_idx <= Len(subscribers[n_event.type])
    /\ LET s == subscribers[n_event.type][n_idx] IN
        /\ h_running' = s
        /\ seen' = [seen EXCEPT ![s][n_event.pub] = invoke_handle(@, n_event.n)]
        /\ in_sequence' = (in_sequence \/ (seen[s][n_event.pub] > 0
                                            /\ seen[s][n_event.pub] # n_event.n))
        /\ delivered' = Append(delivered, s)
    /\ UNCHANGED <<subscribers, bus_pc, n_event, n_idx, pub_count, pub_result, h_raised,
                   missed, round_trip>>

\* handle(event) returns: the loop goes on with the next subscriber.
HandlerReturn ==
    /\ bus_pc = "notify"
    /\ h_running # "none"
    /\ h_running' = "none"
    /\ n_idx' = n_idx + 1
    /\ UNCHANGED <<subscribers, bus_pc, n_event, pub_count, seen, in_sequence, delivered, pub_result,
                   h_raised, missed, round_trip>>

\* handle(event) raises: nothing catches it in notify or in publish, and
\* the subscribers left in the list are not called.
HandlerRaise ==
    /\ bus_pc = "notify"
    /\ h_running # "none"
    /\ h_running' = "none"
    /\ h_raised' = TRUE
    /\ missed' = Len(subscribers[n_event.type]) - n_idx
    /\ pub_result' = "raised"
    /\ bus_pc' = "idle"
    /\ n_event' = NoEvent /\ n_idx' = 0 /\ delivered' = <<>>
    /\ round_trip' = NoRoundTrip
    /\ UNCHANGED <<subscribers, pub_count, seen, in_sequence>>

\* The for loop of notify is exhausted: publish returns.
NotifyReturn ==
    /\ bus_pc = "notify"
    /\ h_running = "none"
    /\ n_idx > Len(subscribers[n_event.type])
    /\ pub_result' = "returned"
    /\ bus_pc' = "idle"
    /\ n_event' = NoEvent /\ n_idx' = 0 /\ delivered' = <<>>
    /\ round_trip' = NoRoundTrip
    /\ UNCHANGED <<subscribers, h_running, pub_count, seen, in_sequence, h_raised, missed>>

\* ------------------------------------------------------------ the trackers

Channels == {"c1", "c2"}

\* self.channels, in the order of the constructor's list (the order of the
\* dicts built from it).
ChannelList == <<"c1", "c2">>

\* The StreamInfo values a channel can report; None stands for no stream.
\* A value stands for the fields the events compare (game, status,
\* started_at), as StreamChanged.from_stream_info reads them.
Streams == {1, 2}

\* No observation of a channel yet.
Unknown == 0 - 2

\* None as a value of Optional[BaseEvent].
NoStatus == [type |-> "None", stream |-> None]

StreamOffline == [type |-> "StreamOffline", stream |-> None]

\* StreamChanged.from_stream_info: the compared fields of the event are those
\* of the stream.
StreamChanged_from_stream_info(info) == [type |-> "StreamChanged", stream |-> info]

StreamOnline_from_stream_info(info) == [type |-> "StreamOnline", stream |-> info]

StreamOnline_from_changed_event(event) == [type |-> "StreamOnline", stream |-> event.stream]

\* self._last_event[channel] = event
set_last_event(last_event, event) == event

\* StreamTrackerBase.stream_info_to_event: the value of _last_event[channel]
\* it leaves, the events it hands to publish in order, and whether it ends
\* with the exception of a publish. o1 and o2 are the outcomes of its two
\* publish calls.
stream_info_to_event(last_event, stream_info, o1, o2) ==
    LET event == IF stream_info # None THEN StreamChanged_from_stream_info(stream_info)
                 ELSE StreamOffline
        online == /\ last_event.type \in {"StreamOffline", "None"}
                  /\ event.type = "StreamChanged"
        first == IF online THEN <<StreamOnline_from_changed_event(event)>> ELSE <<>>
    IN IF online /\ o1 = "raised"
       THEN [last |-> last_event, out |-> first, raised |-> TRUE]
       ELSE IF event # last_event
            THEN [last |-> set_last_event(last_event, event),
                  out |-> Append(first, event), raised |-> (o2 = "raised")]
            ELSE [last |-> last_event, out |-> first, raised |-> FALSE]

OutOf(c, out) == SelectSeq(out, LAMBDA r : r.channel = c)

CountType(t, out) == Cardinality({i \in 1..Len(out) : out[i].event.type = t})

\* Whether a StreamOnline with no StreamOffline after it has been published
\* for the channel, after the events of out.
OpenAfter(was_open, out) ==
    LET marks == SelectSeq(out, LAMBDA r : r.event.type \in {"StreamOnline", "StreamOffline"})
    IN IF marks = <<>> THEN was_open
       ELSE marks[Len(marks)].event.type = "StreamOnline"

\* The history kept of a handler run: what it observed and what it published.
Record(observed, observation, out) ==
    /\ tr_observed' = observed
    /\ obs_prev' = [c \in Channels |-> IF c \in observed THEN obs_last[c] ELSE obs_prev[c]]
    /\ obs_last' = [c \in Channels |-> IF c \in observed THEN observation[c] ELSE obs_last[c]]
    /\ tr_out' = out
    /\ open_before' = online_open
    /\ online_open' = [c \in Channels |-> OpenAfter(online_open[c], OutOf(c, out))]
    /\ last_before' = tr_last_event
    /\ last_pub' = [c \in Channels |->
                      IF OutOf(c, out) = <<>> THEN last_pub[c]
                      ELSE OutOf(c, out)[Len(OutOf(c, out))].event]

\* The Twitch-Notification-Id values of notifications that Twitch may
\* deliver again.
NotificationIds == {"n1", "n2"}

\* The id of a notification that is delivered once.
FreshId == "n0"

\* A request without the Twitch-Notification-Id header.
NoId == "none"

\* A channel that is not in self.channels.
Untracked == "cx"

NoPost == [channel |-> "none", stream |-> None]

NoRequest == [kind |-> "none", channel |-> "none", sig |-> "none", id |-> "none",
              dup |-> FALSE, mode |-> "none", challenge |-> FALSE]

PostRequest(channel, sig, id) ==
    [NoRequest EXCEPT !.kind = "post", !.channel = channel, !.sig = sig, !.id = id,
                      !.dup = (id \in NotificationIds /\ handled[id] # NoPost)]

GetRequest(channel, mode, challenge) ==
    [NoRequest EXCEPT !.kind = "get", !.channel = channel, !.mode = mode,
                      !.challenge = challenge]

\* already_published: event_id in self._event_ids
already_published(ids, event_id) == \E i \in 1..Len(ids) : ids[i] = event_id

\* The history kept of a request: the request, the response, and the
\* records of the server before it.
Answer(req, status) ==
    /\ wh_req' = req
    /\ wh_response' = status
    /\ ids_before' = event_ids
    /\ statuses_before' = subscription_statuses

\* create_tracker(cls, channels, ...): the tracker as constructed.
TrIdle ==
    /\ tr_pc = "new"
    /\ is_running = FALSE
    /\ is_channel_online = [c \in Channels |-> FALSE]
    /\ tr_last_event = [c \in Channels |-> NoStatus]
    /\ posts = <<>>
    /\ tr_observed = {}
    /\ obs_prev = [c \in Channels |-> Unknown]
    /\ obs_last = [c \in Channels |-> Unknown]
    /\ tr_out = <<>>
    /\ online_open = [c \in Channels |-> FALSE]
    /\ open_before = [c \in Channels |-> FALSE]
    /\ last_before = [c \in Channels |-> NoStatus]
    /\ last_pub = [c \in Channels |-> NoStatus]
    /\ tr_error = "none"
    /\ subscription_statuses = [c \in Channels |-> "None"]
    /\ event_ids = <<>>
    /\ wh_site = "down"
    /\ stop_pc = "none"
    /\ unsub_posted = {}
    /\ wh_req = NoRequest
    /\ wh_response = 0
    /\ handled = [n \in NotificationIds |-> NoPost]
    /\ ids_before = <<>>
    /\ statuses_before = [c \in Channels |-> "None"]
    /\ rn_pc = "none"
    /\ rn_sleep = 0
    /\ since_subscribe = [c \in Channels |-> Unknown]

trGhost == <<tr_observed, obs_prev, obs_last, tr_out, online_open, open_before,
             last_before, last_pub>>

whGhost == <<wh_req, wh_response, handled, ids_before, statuses_before>>

\* run() up to its loop: the webhook tracker starts its site and its
\* renewal task (_auto_update_webhook), and _is_running = True.
TrRun ==
    /\ tr_pc = "new"
    /\ tr_pc' = "running"
    /\ is_running' = TRUE
    /\ wh_site' = IF tr_kind = "webhook" THEN "up" ELSE wh_site
    /\ rn_pc' = IF tr_kind = "webhook" THEN "register" ELSE rn_pc
    /\ UNCHANGED <<rn_sleep, since_subscribe>>
    /\ UNCHANGED <<tr_kind, is_channel_online, tr_last_event, posts, trGhost, tr_error,
                   subscription_statuses, event_ids, stop_pc, unsub_posted, whGhost>>

\* RegularTracker.stop(): _is_running = False.
TrStop ==
    /\ tr_kind = "regular"
    /\ tr_pc = "running"
    /\ is_running
    /\ is_running' = FALSE
    /\ stop_pc' = "returned"
    /\ UNCHANGED <<tr_kind, tr_pc, is_channel_online, tr_last_event, posts, trGhost, tr_error,
                   subscription_statuses, event_ids, wh_site, unsub_posted, whGhost>>

\* WebhookTracker.stop() on a running tracker, up to the end of
\* self._runner.cleanup(): the site is closed, which ends the handlers
\* still in flight.
WhStopCleanup ==
    /\ tr_kind = "webhook"
    /\ tr_pc = "running"
    /\ is_running
    /\ stop_pc = "none"
    /\ stop_pc' = "cleanup"
    /\ wh_site' = "closed"
    /\ posts' = <<>>
    /\ UNCHANGED <<tr_kind, tr_pc, is_running, is_channel_online, tr_last_event, trGhost,
                   tr_error, subscription_statuses, event_ids, unsub_posted, whGhost>>

\* The channels _unregister_webhooks asks get_users for.
subscribed_channels(statuses) == {c \in Channels : statuses[c] = "subscribed"}

\* WebhookTracker.stop() from _unregister_webhooks to its end. get_users
\* raises ValueError for an empty list of logins, and may fail (users_ok
\* false); otherwise an unsubscribe request is posted for each user and
\* _is_running = False.
WhStopUnregister(users_ok) ==
    /\ tr_kind = "webhook"
    /\ stop_pc = "cleanup"
    /\ IF subscribed_channels(subscription_statuses) = {} \/ ~users_ok
       THEN /\ stop_pc' = "raised"
            /\ UNCHANGED <<is_running, unsub_posted>>
       ELSE /\ unsub_posted' = subscribed_channels(subscription_statuses)
            /\ is_running' = FALSE
            /\ stop_pc' = "returned"
    /\ UNCHANGED <<tr_kind, tr_pc, is_channel_online, tr_last_event, posts, trGhost, tr_error,
                   subscription_statuses, event_ids, wh_site, whGhost>>

\* The while loop of run() finds is_running false: run() returns.
TrRunReturn ==
    /\ tr_pc = "running"
    /\ ~is_running
    /\ tr_pc' = "returned"
    /\ UNCHANGED <<tr_kind, is_running, is_channel_online, tr_last_event, posts, trGhost,
                   tr_error, whVars>>

\* The channels whose status differs from the recorded one, in dict order.
channels_for_event(online_map, streams) ==
    SelectSeq(ChannelList, LAMBDA c : online_map[c] # (streams[c] # None))

\* One iteration of RegularTracker.run: get_streams answers streams (None
\* for a channel that is not live), and the events are published; the
\* publish number fail raises (0: none does), which ends run().
Poll(streams, fail) ==
    LET changed == channels_for_event(is_channel_online, streams)
        n_pub == IF fail = 0 THEN Len(changed) ELSE fail
        n_set == IF fail = 0 THEN Len(changed) ELSE fail - 1
        event(c) == IF streams[c] # None THEN StreamOnline_from_stream_info(streams[c])
                    ELSE StreamOffline
    IN /\ tr_kind = "regular"
       /\ tr_pc = "running"
       /\ is_running
       /\ fail <= Len(changed)
       /\ is_channel_online' =
              [c \in Channels |->
                  IF \E i \in 1..n_set : changed[i] = c THEN streams[c] # None
                  ELSE is_channel_online[c]]
       /\ tr_pc' = IF fail = 0 THEN "running" ELSE "raised"
       /\ tr_error' = IF fail = 0 THEN tr_error ELSE "publish"
       /\ Record(Channels, streams,
                 [i \in 1..n_pub |-> [channel |-> changed[i], event |-> event(changed[i])]])
       /\ UNCHANGED <<tr_kind, is_running, tr_last_event, posts, whVars>>

\* One iteration of RegularTracker.run in which get_streams raises: nothing
\* in run() catches the exception.
PollQueryRaises ==
    /\ tr_kind = "regular"
    /\ tr_pc = "running"
    /\ is_running
    /\ tr_pc' = "raised"
    /\ tr_error' = "query"
    /\ UNCHANGED <<tr_kind, is_running, is_channel_online, tr_last_event, posts, trGhost,
                   whVars>>

\* A request for a channel that is not tracked: validate_channel answers 400.
RequestUntracked(kind) ==
    /\ wh_site = "up"
    /\ Answer([NoRequest EXCEPT !.kind = kind, !.channel = Untracked], 400)
    /\ Record({}, obs_last, <<>>)
    /\ UNCHANGED <<tr_kind, tr_pc, is_running, is_channel_online, tr_last_event, posts,
                   tr_error, subscription_statuses, event_ids, wh_site, stop_pc,
                   unsub_posted, handled>>

\* The status on_streams_post answers before it reads the body further:
\* splitting a missing header value, or one without a single "=", raises;
\* a wrong digest is answered 403, a missing notification id 404.
post_rejection(sig, id) ==
    CASE sig \in {"missing", "malformed"} -> 500
      [] sig = "wrong" -> 403
      [] sig = "valid" /\ id = NoId -> 404
      [] OTHER -> 0

\* on_streams_post for a tracked channel, ended by the signature or the
\* notification id.
PostReject(channel, sig, id) ==
    /\ wh_site = "up"
    /\ post_rejection(sig, id) # 0
    /\ Answer(PostRequest(channel, sig, id), post_rejection(sig, id))
    /\ Record({}, obs_last, <<>>)
    /\ UNCHANGED <<tr_kind, tr_pc, is_running, is_channel_online, tr_last_event, posts,
                   tr_error, subscription_statuses, event_ids, wh_site, stop_pc,
                   unsub_posted, handled>>

\* A notification with the id was delivered before with another content.
OtherContent(channel, stream_info, id) ==
    \/ /\ id \in NotificationIds
       /\ handled[id] # NoPost
       /\ handled[id] # [channel |-> channel, stream |-> stream_info]
    \/ \E i \in 1..Len(posts) :
          /\ id \in NotificationIds
          /\ posts[i].id = id
          /\ (posts[i].channel # channel \/ posts[i].stream # stream_info)

\* on_streams_post up to its awaits, for a validly signed notification of a
\* tracked channel: a notification whose id is in _event_ids is answered
\* at once, another is being read and prepared.
PostArrive(channel, stream_info, id) ==
    /\ tr_kind = "webhook"
    /\ wh_site = "up"
    /\ Len(posts) < MaxInflight
    /\ ~OtherContent(channel, stream_info, id)
    /\ IF already_published(event_ids, id)
       THEN /\ Answer(PostRequest(channel, "valid", id), 200)
            /\ Record({}, obs_last, <<>>)
            /\ UNCHANGED posts
       ELSE /\ posts' = Append(posts, [channel |-> channel, stream |-> stream_info, id |-> id])
            /\ UNCHANGED <<trGhost, wh_req, wh_response, ids_before, statuses_before>>
    /\ UNCHANGED <<tr_kind, tr_pc, is_running, is_channel_online, tr_last_event, tr_error,
                   subscription_statuses, event_ids, wh_site, stop_pc, unsub_posted, handled>>

\* on_streams_post for a notification in flight whose prepare_stream_info
\* (asked for a notification with a stream) raises.
PostPrepareRaises(i) ==
    /\ tr_kind = "webhook"
    /\ i \in 1..Len(posts)
    /\ posts[i].stream # None
    /\ Answer(PostRequest(posts[i].channel, "valid", posts[i].id), 500)
    /\ Record({}, obs_last, <<>>)
    /\ posts' = SubSeq(posts, 1, i - 1) \o SubSeq(posts, i + 1, Len(posts))
    /\ UNCHANGED <<tr_kind, tr_pc, is_running, is_channel_online, tr_last_event, tr_error,
                   subscription_statuses, event_ids, wh_site, stop_pc, unsub_posted, handled>>

\* on_streams_post from stream_info_to_event to its response, for any of
\* the notifications in flight. Nothing is added to _event_ids.
PostHandle(i, o1, o2) ==
    /\ tr_kind = "webhook"
    /\ i \in 1..Len(posts)
    /\ LET c == posts[i].channel
           r == stream_info_to_event(tr_last_event[c], posts[i].stream, o1, o2)
       IN /\ tr_last_event' = [tr_last_event EXCEPT ![c] = r.last]
          /\ Record({c}, [d \in Channels |-> posts[i].stream],
                    [k \in 1..Len(r.out) |-> [channel |-> c, event |-> r.out[k]]])
          /\ Answer(PostRequest(c, "valid", posts[i].id), IF r.raised THEN 500 ELSE 200)
          /\ handled' = IF posts[i].id \in NotificationIds
                        THEN [handled EXCEPT ![posts[i].id] =
                                 [channel |-> c, stream |-> posts[i].stream]]
                        ELSE handled
    /\ posts' = SubSeq(posts, 1, i - 1) \o SubSeq(posts, i + 1, Len(posts))
    /\ UNCHANGED <<tr_kind, tr_pc, is_running, is_channel_online, tr_error,
                   subscription_statuses, event_ids, wh_site, stop_pc, unsub_posted>>

\* The state on_streams_get leaves for the channel.
get_status(status, hub_mode) ==
    IF hub_mode \in {"subscribe", "unsubscribe"}
    THEN (IF hub_mode = "subscribe" THEN "subscribed" ELSE "unsubscribed")
    ELSE status

\* The status on_streams_get answers; reading a missing hub.challenge
\* raises after the state was set.
get_response(hub_mode, challenge) ==
    CASE hub_mode = "denied" -> 200
      [] hub_mode \in {"subscribe", "unsubscribe"} -> (IF challenge THEN 200 ELSE 500)
      [] OTHER -> 400

\* on_streams_get for a tracked channel.
Get(channel, hub_mode, challenge) ==
    /\ tr_kind = "webhook"
    /\ wh_site = "up"
    /\ subscription_statuses' =
          [subscription_statuses EXCEPT ![channel] = get_status(@, hub_mode)]
    /\ Answer(GetRequest(channel, hub_mode, challenge), get_response(hub_mode, challenge))
    /\ Record({}, obs_last, <<>>)
    /\ UNCHANGED <<tr_kind, tr_pc, is_running, is_channel_online, tr_last_event, posts,
                   tr_error, event_ids, wh_site, stop_pc, unsub_posted, handled>>

\* _update_webhook at _register_webhooks, up to asyncio.wait(tasks):
\* get_users may fail, which ends the task; otherwise a subscribe request is
\* sent for each user found (asyncio.wait raises for no task at all).
RenewRegister(users_ok, found) ==
    /\ rn_pc = "register"
    /\ IF ~users_ok \/ found = {}
       THEN /\ rn_pc' = "dead"
            /\ UNCHANGED since_subscribe
       ELSE /\ rn_pc' = "wait"
            /\ since_subscribe' = [c \in Channels |->
                                      IF c \in found THEN 0 ELSE since_subscribe[c]]
    /\ UNCHANGED <<rn_sleep, trVars, whVars>>

\* asyncio.wait(tasks) returns, the requests done (retries included):
\* asyncio.sleep(self._lease_time) begins.
RenewRegistered ==
    /\ rn_pc = "wait"
    /\ rn_pc' = "sleep"
    /\ rn_sleep' = LeaseTicks
    /\ UNCHANGED <<since_subscribe, trVars, whVars>>

\* asyncio.sleep(self._lease_time) is over: the loop registers again.
RenewWake ==
    /\ rn_pc = "sleep"
    /\ rn_sleep = 0
    /\ rn_pc' = "register"
    /\ UNCHANGED <<rn_sleep, since_subscribe, trVars, whVars>>

\* One tick of the clock; a sleep that is over wakes before the next tick.
\* Ticks past the lease are not counted further.
Tick ==
    /\ rn_pc \in {"register", "wait", "sleep"}
    /\ ~(rn_pc = "sleep" /\ rn_sleep = 0)
    /\ rn_sleep' = IF rn_pc = "sleep" THEN rn_sleep - 1 ELSE rn_sleep
    /\ since_subscribe' = [c \in Channels |->
                              IF since_subscribe[c] = Unknown THEN Unknown
                              ELSE Min(since_subscribe[c] + 1, LeaseTicks + 1)]
    /\ UNCHANGED <<rn_pc, trVars, whVars>>

\* ------------------------------------------------- TwitchStreamDownloader

\* The (channel_id, started_at) pairs of the streams announced.
StreamKeys == {"k1", "k2"}

NoHandled == [key |-> "none", was_downloading |-> FALSE, started |-> FALSE]

\* A check that finds no stream being downloaded.
never_downloading(streams, key) == FALSE

\* event.started_at in self._downloading_streams[event.channel_id]
already_downloading(streams, key) == key \in streams

InProgress(key) == Cardinality({i \in 1..Len(sd_handlers) : sd_handlers[i].key = key})

EventsHandled == sd_events["k1"] + sd_events["k2"]

\* TwitchStreamDownloader(...) as constructed.
SdIdle ==
    /\ downloading_streams = {}
    /\ sd_handlers = <<>>
    /\ tmp_files = 0
    /\ sd_events = [k \in StreamKeys |-> 0]
    /\ sd_started = [k \in StreamKeys |-> 0]
    /\ dm_invoked = [k \in StreamKeys |-> 0]
    /\ sd_last = NoHandled
    /\ sd_returned = [k \in StreamKeys |-> 0]
    /\ sd_raised = [k \in StreamKeys |-> 0]
    /\ finalizer_calls = [k \in StreamKeys |-> 0]

\* handle(StreamOnline) up to its first await: a stream being downloaded is
\* skipped; otherwise the temporary file is created, the key is added, and
\* download() calls the manager (LIVE) or starts waiting for the VOD.
HandleStreamOnline(key) ==
    /\ EventsHandled < MaxEvents
    /\ sd_events' = [sd_events EXCEPT ![key] = @ + 1]
    /\ IF already_downloading(downloading_streams, key)
       THEN /\ sd_last' = [key |-> key, was_downloading |-> key \in downloading_streams,
                           started |-> FALSE]
            /\ UNCHANGED <<downloading_streams, sd_handlers, tmp_files, sd_started, dm_invoked>>
       ELSE /\ sd_last' = [key |-> key, was_downloading |-> key \in downloading_streams,
                           started |-> TRUE]
            /\ tmp_files' = tmp_files + 1
            /\ downloading_streams' = downloading_streams \cup {key}
            /\ sd_started' = [sd_started EXCEPT ![key] = @ + 1]
            /\ IF sd_stream_type = "LIVE"
               THEN /\ dm_invoked' = [dm_invoked EXCEPT ![key] = @ + 1]
                    /\ sd_handlers' = Append(sd_handlers, [key |-> key, st |-> "download"])
               ELSE /\ sd_handlers' = Append(sd_handlers, [key |-> key, st |-> "wait_vod"])
                    /\ UNCHANGED dm_invoked
    /\ UNCHANGED <<sd_stream_type, sd_returned, sd_raised, finalizer_calls>>

\* wait_for_vod returns the id of the VOD: download_archive is called.
VodFound(i) ==
    /\ i \in 1..Len(sd_handlers)
    /\ sd_handlers[i].st = "wait_vod"
    /\ sd_handlers' = [sd_handlers EXCEPT ![i].st = "download"]
    /\ dm_invoked' = [dm_invoked EXCEPT ![sd_handlers[i].key] = @ + 1]
    /\ UNCHANGED <<sd_stream_type, downloading_streams, tmp_files, sd_events, sd_started,
                   sd_last, sd_returned, sd_raised, finalizer_calls>>

DownloadOutcomes == {"returned", "raised"}

\* An exit that forgets the stream only when the body returned.
exit_without_finally(streams, key, outcome) ==
    IF outcome = "returned" THEN streams \ {key} ELSE streams

\* downloading_stream: the finally clause removes the key however the body
\* of the with statement ended.
downloading_stream_exit(streams, key, outcome) == streams \ {key}

\* download() returns (the manager's result is dropped: download has no
\* return statement and handle makes no call after it) or raises; the with
\* statement closes the file, which stays on disk, and removes the key.
DownloadEnds(i, outcome) ==
    /\ i \in 1..Len(sd_handlers)
    /\ outcome = "returned" => sd_handlers[i].st = "download"
    /\ LET key == sd_handlers[i].key IN
        /\ downloading_streams' = downloading_stream_exit(downloading_streams, key, outcome)
        /\ sd_returned' = IF outcome = "returned" THEN [sd_returned EXCEPT ![key] = @ + 1]
                          ELSE sd_returned
        /\ sd_raised' = IF outcome = "raised" THEN [sd_raised EXCEPT ![key] = @ + 1]
                        ELSE sd_raised
    /\ sd_handlers' = SubSeq(sd_handlers, 1, i - 1) \o SubSeq(sd_handlers, i + 1, Len(sd_handlers))
    /\ UNCHANGED <<sd_stream_type, tmp_files, sd_events, sd_started, dm_invoked, sd_last,
                   finalizer_calls>>

\* ------------------------------------------------------------ download_live

\* TwitchLivePlaylist.MAX_SEGMENTS
MAX_SEGMENTS == 300

Max(a, b) == IF a > b THEN a ELSE b

\* l[k:] of Python, k negative counting from the end.
py_slice_from(l, k) ==
    LET start == IF k < 0 THEN Max(Len(l) + k, 0) ELSE Min(k, Len(l))
    IN SubSeq(l, start + 1, Len(l))

\* deque(maxlen=maxlen).extend(new): the oldest entries are dropped.
deque_extend(d, new, maxlen) ==
    LET all == d \o new
    IN SubSeq(all, Max(Len(all) - maxlen, 0) + 1, Len(all))

\* An update that stores the whole snapshot again.
live_update_whole(segments, first_n, count) ==
    LET last_n == IF segments # <<>> THEN segments[Len(segments)] ELSE first_n - 1
    IN IF first_n > last_n + 1
       THEN [raised |-> TRUE, segments |-> segments]
       ELSE [raised |-> FALSE,
             segments |-> deque_extend(segments, Run(first_n, count), MAX_SEGMENTS)]

\* TwitchLivePlaylist.update after the playlist was fetched: the numbers of
\* the snapshot that follow the last stored one are stored, unless the
\* snapshot starts after the number that follows the last stored one.
live_update(segments, first_n, count) ==
    LET last_n == IF segments # <<>> THEN segments[Len(segments)] ELSE first_n - 1
        new == SelectSeq(Run(first_n, count), LAMBDA n : n > last_n)
    IN IF first_n > last_n + 1
       THEN [raised |-> TRUE, segments |-> segments]
       ELSE [raised |-> FALSE, segments |-> deque_extend(segments, new, MAX_SEGMENTS)]

\* TwitchLivePlaylist.get_segments_after for None or a number.
live_get_segments_after(segments, segment) ==
    IF segment = None THEN segments
    ELSE py_slice_from(segments, (segment - segments[1]) + 1)

\* self._segments[0] of an empty deque raises IndexError.
live_index_error(segments, segment) == segment # None /\ segments = <<>>

NoResult == [raised |-> FALSE, segments |-> <<>>, called |-> FALSE]

LvIdle ==
    /\ lv_pc = "idle" /\ lv_segments = <<>> /\ lv_endlist = FALSE /\ lv_task = "none"
    /\ lv_last_segment = None /\ lv_events = <<>> /\ lv_gap = FALSE /\ lv_error = "none"
    /\ vw_kind = "live" /\ vw_marker = None /\ vw_result = NoResult

\* download_live up to its loop (lines 80-89): the first update of an
\* empty view stores the whole snapshot.
LvStart(first_n, count, endlist, out) ==
    /\ lv_pc = "idle"
    /\ LET u == live_update(lv_segments, first_n, count) IN
        /\ lv_segments' = u.segments
        /\ lv_endlist' = endlist
        /\ lv_task' = "alive"
        /\ lv_events' = Append(lv_events, "BeginDownloadingLive")
        /\ lv_pc' = IF out = "returned" THEN "loop" ELSE "raised"
        /\ lv_error' = IF out = "returned" THEN "none" ELSE "publish"
    /\ UNCHANGED <<lv_last_segment, lv_gap, dsVars, vwVars>>

UpdateOutcomes == {"ok", "ClientResponseError", "TwitchAPIError"}

\* One round of periodic_update: after the sleep the playlist is fetched and
\* the view updated. A ClientResponseError makes the done callback start the
\* task again; any other exception, DownloadingError of a gap included, ends
\* the task for good. The task ends by itself once is_endlist was seen.
LvPeriodicUpdate(first_n, count, endlist, outcome) ==
    /\ lv_pc \in {"loop", "ds", "done", "raised"}
    /\ lv_task = "alive"
    /\ IF lv_endlist
       THEN /\ lv_task' = "finished"
            /\ UNCHANGED <<lv_segments, lv_endlist, lv_gap>>
       ELSE IF outcome # "ok"
       THEN /\ lv_task' = IF outcome = "ClientResponseError" THEN "alive" ELSE "dead"
            /\ UNCHANGED <<lv_segments, lv_endlist, lv_gap>>
       ELSE LET u == live_update(lv_segments, first_n, count) IN
            /\ lv_segments' = u.segments
            /\ lv_endlist' = endlist
            /\ lv_gap' = (lv_gap \/ u.raised)
            /\ lv_task' = IF u.raised THEN "dead" ELSE "alive"
    /\ UNCHANGED <<lv_pc, lv_last_segment, lv_events, lv_error, dsVars, vwVars>>

\* The head of the while loop (lines 90-95): the loop ends when the playlist
\* fetched last has the endlist tag, else download_segments is called.
LvLoopTop(out) ==
    /\ lv_pc = "loop"
    /\ Len(file) < MaxFile
    /\ IF lv_endlist
       THEN /\ lv_events' = Append(lv_events, "EndDownloadingLive")
            /\ lv_pc' = IF out = "returned" THEN "done" ELSE "raised"
            /\ lv_error' = IF out = "returned" THEN "none" ELSE "publish"
            /\ UNCHANGED dsVars
       ELSE /\ out = "returned"
            /\ download_segments(live_get_segments_after(lv_segments, lv_last_segment),
                                 N_CONCURRENT_DOWNLOADS)
            /\ lv_pc' = "ds"
            /\ UNCHANGED <<lv_events, lv_error>>
    /\ UNCHANGED <<lv_segments, lv_endlist, lv_task, lv_last_segment, lv_gap, vwVars>>

\* The rest of the loop body once download_segments has returned (lines
\* 96-103): the cursor, then playlist.update(use_old_url=False) when nothing
\* of a non-empty list was written.
LvAfterSegments(first_n, count, endlist, outcome) ==
    /\ lv_pc = "ds"
    /\ ds_pc = "returned"
    /\ lv_last_segment' = next_cursor(lv_last_segment, ds_last)
    /\ IF ~Truthy(ds_last) /\ ds_segments # <<>>
       THEN IF outcome # "ok"
            THEN /\ lv_pc' = "raised"
                 /\ lv_error' = outcome
                 /\ UNCHANGED <<lv_segments, lv_endlist, lv_gap>>
            ELSE LET u == live_update(lv_segments, first_n, count) IN
                 /\ lv_segments' = u.segments
                 /\ lv_endlist' = endlist
                 /\ lv_gap' = (lv_gap \/ u.raised)
                 /\ lv_pc' = IF u.raised THEN "raised" ELSE "loop"
                 /\ lv_error' = IF u.raised THEN "DownloadingError" ELSE lv_error
       ELSE /\ outcome = "ok" /\ first_n = 0 /\ count = 1 /\ endlist = lv_endlist
            /\ lv_pc' = "loop"
            /\ UNCHANGED <<lv_segments, lv_endlist, lv_gap, lv_error>>
    /\ ds_pc' = "idle"
    /\ UNCHANGED <<ds_segments, ds_conc, ds_pos, ds_tasks, ds_last, file,
                   ds_failed, ds_chunks, ds_ooo, ds_base, fetchErrors>>
    /\ UNCHANGED <<lv_task, lv_events, vwVars>>

\* ------------------------------------------------------ get_segments_after

\* The VOD view is updated: _segments = list(enumerate(files)).
VwUpdateVod(len) ==
    /\ vw_kind = "vod"
    /\ len >= pl_len
    /\ pl_len' = len
    /\ vw_result' = NoResult
    /\ UNCHANGED <<dm_pc, pl_endlist, pl_periodic, after_segment, last_segment, exist_buf,
                   is_recording, dm_events, dm_check, dm_order>>
    /\ UNCHANGED <<lvVars, vw_kind, vw_marker>>

\* The live view is updated with a snapshot that leaves no gap.
VwUpdateLive(first_n, count) ==
    /\ vw_kind = "live"
    /\ LET u == live_update(lv_segments, first_n, count) IN
        /\ ~u.raised
        /\ lv_segments' = u.segments
    /\ vw_result' = NoResult
    /\ UNCHANGED <<lv_pc, lv_endlist, lv_task, lv_last_segment, lv_events, lv_gap, lv_error>>
    /\ UNCHANGED <<dmVars, vw_kind, vw_marker>>

\* get_segments_after(m) is called on the view.
VwGetSegmentsAfter(m) ==
    /\ vw_marker' = m
    /\ vw_result' =
          IF vw_kind = "vod"
          THEN IF vod_index_error(pl_len, m)
               THEN [raised |-> TRUE, segments |-> <<>>, called |-> TRUE]
               ELSE [raised |-> FALSE, segments |-> vod_get_segments_after(pl_len, m),
                     called |-> TRUE]
          ELSE IF live_index_error(lv_segments, m)
               THEN [raised |-> TRUE, segments |-> <<>>, called |-> TRUE]
               ELSE [raised |-> FALSE, segments |-> live_get_segments_after(lv_segments, m),
                     called |-> TRUE]
    /\ UNCHANGED <<dmVars, lvVars, vw_kind>>

\* --------------------------------------------------------------- get_videos

\* TwitchAPIv5.MAX_LIMIT and TwitchAPIHelix.MAX_IDS
MAX_LIMIT == 100
MAX_IDS == 100

part_size(adapter) == IF adapter = "v5" THEN MAX_LIMIT ELSE MAX_IDS

\* offset_generator(limit, part_size) before its first next(): a limit of
\* None or 0 takes the endless branch.
offset_generator(limit) ==
    [offset |-> 0, remaining |-> IF limit = None THEN 0 ELSE limit,
     endless |-> (limit = None \/ limit = 0)]

\* The generator has another (offset, n) to yield.
og_has_next(gen) == gen.endless \/ gen.remaining > 0

\* n of the (offset, n) yielded next.
og_n(gen, part) ==
    IF gen.endless THEN part
    ELSE IF gen.remaining > part THEN part ELSE gen.remaining

\* The generator after the yield.
og_advance(gen, part) ==
    [offset |-> gen.offset + part,
     remaining |-> IF gen.endless THEN gen.remaining ELSE gen.remaining - part,
     endless |-> gen.endless]

\* The videos Twitch answers with: those at positions start+1 .. start+n of
\* the channel's total, as [start, count].
page_of(total, start, n) ==
    [start |-> start, count |-> IF start >= total THEN 0 ELSE Min(n, total - start)]

GvIdle ==
    /\ gv_adapter = "v5" /\ gv_limit = 0 /\ gv_total = 0 /\ gv_pc = "idle"
    /\ gv_gen = offset_generator(None) /\ gv_cursor = None /\ gv_videos = <<>>
    /\ gv_requested = 0 /\ gv_largest = 0

\* get_videos(channel, video_type, limit=gv_limit) up to its for loop.
GvCall ==
    /\ gv_pc = "idle"
    /\ gv_pc' = "paging"
    /\ gv_gen' = offset_generator(gv_limit)
    /\ gv_cursor' = None
    /\ UNCHANGED <<gv_adapter, gv_limit, gv_total, gv_videos, gv_requested, gv_largest>>

\* One round of the for loop: the next page is requested (by offset from
\* v5, after the cursor from Helix) and the loop breaks on an empty page.
\* Helix answers its last page with a cursor or with an empty pagination
\* object, which from_json reads as None.
GvPage(cursor_on_last) ==
    /\ gv_pc = "paging"
    /\ og_has_next(gv_gen)
    /\ Len(gv_videos) < MaxPages
    /\ LET part == part_size(gv_adapter)
           n == og_n(gv_gen, part)
           start == IF gv_adapter = "v5" THEN gv_gen.offset
                    ELSE IF gv_cursor = None THEN 0 ELSE gv_cursor
           page == page_of(gv_total, start, n)
           more == start + page.count < gv_total
       IN /\ gv_requested' = gv_requested + n
          /\ gv_largest' = Max(gv_largest, n)
          /\ gv_gen' = og_advance(gv_gen, part)
          /\ IF gv_adapter = "helix"
             THEN gv_cursor' = IF more \/ (cursor_on_last /\ page.count > 0)
                               THEN start + page.count ELSE None
             ELSE cursor_on_last /\ UNCHANGED gv_cursor
          /\ IF page.count = 0
             THEN gv_pc' = "returned" /\ UNCHANGED gv_videos
             ELSE gv_pc' = "paging" /\ gv_videos' = Append(gv_videos, page)
    /\ UNCHANGED <<gv_adapter, gv_limit, gv_total>>

\* The generator is exhausted: the for loop ends and videos is returned.
GvReturn ==
    /\ gv_pc = "paging"
    /\ ~og_has_next(gv_gen)
    /\ gv_pc' = "returned"
    /\ UNCHANGED <<gv_adapter, gv_limit, gv_total, gv_gen, gv_cursor, gv_videos,
                   gv_requested, gv_largest>>

\* ------------------------------------------------ TwitchAPIHelix._request

\* Statuses the platform answers a request with.
Statuses == {200, 401, 404, 429}

\* expires_in of the tokens the platform issues.
ExpiresIn == 2..MaxExpiresIn

\* A token whose expiry time has come.
expired(token, now) == token <= now

\* access_token: the condition under which it awaits authorize().
\* (With a secret and no token the second operand is not evaluated.)
needs_authorize(token, now) == token = None \/ token > now

\* What a token is at a time: "none" | "expired" | "unexpired".
token_state(token, now) ==
    IF token = None THEN "none"
    ELSE IF expired(token, now) THEN "expired" ELSE "unexpired"

\* authorize(): the token cached from a response received at `now`.
authorize(now, expires_in) == now + expires_in - 1

\* A condition that authorizes again at every 401.
reauthorize_always(status, secret, tries) == status = 401 /\ secret

\* _request: the condition of the except branch that authorizes again.
may_reauthorize(status, secret, tries) == status = 401 /\ secret /\ tries < 2

NoCall == [backoffs |-> 0, answers |-> <<>>, reauths |-> 0, auth_failed |-> FALSE]
NoRead == [cached |-> "none", authorized |-> FALSE, returned |-> "unread"]

HxNew(secret) ==
    /\ hx_secret = secret /\ hx_token = None /\ hx_now = 0 /\ hx_pc = "idle"
    /\ hx_tries = 0 /\ hx_call = NoCall /\ hx_tok = NoRead

HxIdle == HxNew(FALSE)

\* _request up to its loop: with a secret the access_token property is
\* read, which may await authorize() (auth_ok: the authorization succeeds).
HxRequest(auth_ok, expires_in) ==
    /\ hx_pc \in {"idle", "returned", "raised"}
    /\ hx_tries' = 0
    /\ hx_call' = NoCall
    /\ IF ~hx_secret
       THEN /\ hx_pc' = "loop"
            /\ UNCHANGED <<hx_token, hx_tok>>
       ELSE LET cached == token_state(hx_token, hx_now)
                need == needs_authorize(hx_token, hx_now)
                token == IF need THEN authorize(hx_now, expires_in) ELSE hx_token
            IN  IF need /\ ~auth_ok
                THEN /\ hx_pc' = "raised"
                     /\ hx_tok' = [cached |-> cached, authorized |-> TRUE,
                                   returned |-> "none"]
                     /\ UNCHANGED hx_token
                ELSE /\ hx_pc' = "loop"
                     /\ hx_token' = token
                     /\ hx_tok' = [cached |-> cached, authorized |-> need,
                                   returned |-> token_state(token, hx_now)]
    /\ UNCHANGED <<hx_secret, hx_now>>

\* while tries < 2: ... tries += 1, and the raise after the loop.
HxLoopTop ==
    /\ hx_pc = "loop"
    /\ IF hx_tries < 2
       THEN hx_pc' = "request" /\ hx_tries' = hx_tries + 1
       ELSE hx_pc' = "raised" /\ UNCHANGED hx_tries
    /\ UNCHANGED <<hx_secret, hx_token, hx_now, hx_call, hx_tok>>

\* _limited_request: the request is sent and answered. BaseAPI._request
\* sleeps and sends it again at 429; another error status reaches the
\* except branch of _request.
HxAnswer(status) ==
    /\ hx_pc = "request"
    /\ status = 429 => hx_call.backoffs + Len(hx_call.answers) < MaxSends
    /\ IF status = 429
       THEN /\ hx_call' = [hx_call EXCEPT !.backoffs = @ + 1]
            /\ UNCHANGED hx_pc
       ELSE /\ hx_call' = [hx_call EXCEPT !.answers = Append(@, status)]
            /\ hx_pc' = IF status = 200 THEN "returned"
                        ELSE IF may_reauthorize(status, hx_secret, hx_tries)
                             THEN "authorize" ELSE "raised"
    /\ UNCHANGED <<hx_secret, hx_token, hx_now, hx_tries, hx_tok>>

\* await self.authorize() of the except branch.
HxAuthorize(auth_ok, expires_in) ==
    /\ hx_pc = "authorize"
    /\ IF auth_ok
       THEN /\ hx_token' = authorize(hx_now, expires_in)
            /\ hx_pc' = "loop"
            /\ hx_call' = [hx_call EXCEPT !.reauths = @ + 1]
       ELSE /\ hx_pc' = "raised"
            /\ hx_call' = [hx_call EXCEPT !.reauths = @ + 1, !.auth_failed = TRUE]
            /\ UNCHANGED hx_token
    /\ UNCHANGED <<hx_secret, hx_now, hx_tries, hx_tok>>

\* One tick of the clock.
HxTick ==
    /\ hx_now < MaxTime
    /\ hx_now' = hx_now + 1
    /\ UNCHANGED <<hx_secret, hx_token, hx_pc, hx_tries, hx_call, hx_tok>>

\* ------------------------------------------------------------ TokenBucket

Coros == 1..MaxCoros

\* A loop condition that lets a coroutine through an empty bucket.
acquire_waits_below(tokens) == tokens < 0

\* acquire: the condition of its while loop.
acquire_waits(tokens) == tokens <= 0

\* _wake_up_next, n times: the first n waiters (no future of the deque is
\* done, as no acquire is cancelled) get their result set.
wake_up_next(waiters, n) ==
    [woken |-> {waiters[i] : i \in 1..Min(n, Len(waiters))},
     waiters |-> SubSeq(waiters, Min(n, Len(waiters)) + 1, Len(waiters))]

\* update_tokens(tokens, tokens_reset) on a bucket: the fields after the
\* call, the number of _wake_up_next calls and whether the reset task and
\* its timer were created anew.
update_tokens(bucket_tokens, bucket_reset, tokens, tokens_reset) ==
    LET lowered == IF tokens < bucket_tokens THEN tokens ELSE bucket_tokens
    IN  IF tokens_reset > bucket_reset
        THEN [tokens |-> tokens, reset |-> tokens_reset, wake |-> tokens, timer |-> TRUE]
        ELSE [tokens |-> lowered, reset |-> bucket_reset, wake |-> 0, timer |-> FALSE]

\* Before the first update_tokens call: left is None.
NoUpdate == [left |-> None, admitted |-> 0, fired |-> FALSE]

TbIdle ==
    /\ tb_tokens = 1 /\ tb_reset = 0 /\ tb_waiters = <<>> /\ tb_timer = FALSE
    /\ tb_coro = [c \in Coros |-> "idle"]
    /\ tb_hist = NoUpdate

\* The body of acquire from its loop condition on, for coroutine c.
TbEnter(c) ==
    IF acquire_waits(tb_tokens)
    THEN /\ tb_waiters' = Append(tb_waiters, c)
         /\ tb_coro' = [tb_coro EXCEPT ![c] = "waiting"]
         /\ UNCHANGED <<tb_tokens, tb_hist>>
    ELSE /\ tb_tokens' = tb_tokens - 1
         /\ tb_coro' = [tb_coro EXCEPT ![c] = "holding"]
         /\ tb_hist' = [tb_hist EXCEPT !.admitted = @ + 1]
         /\ UNCHANGED tb_waiters

\* `async with self._token_bucket`: coroutine c calls acquire.
TbAcquire(c) ==
    /\ tb_coro[c] = "idle"
    /\ TbEnter(c)
    /\ UNCHANGED <<tb_reset, tb_timer>>

\* A coroutine whose future got its result goes on in acquire.
TbResume(c) ==
    /\ tb_coro[c] = "woken"
    /\ TbEnter(c)
    /\ UNCHANGED <<tb_reset, tb_timer>>

\* _limited_request of c gets its response and calls update_tokens with
\* the values of the rate limit headers.
TbResponse(c, remaining, reset) ==
    /\ tb_coro[c] = "holding"
    /\ LET u == update_tokens(tb_tokens, tb_reset, remaining, reset)
           w == wake_up_next(tb_waiters, u.wake)
       IN  /\ tb_tokens' = u.tokens
           /\ tb_reset' = u.reset
           /\ tb_timer' = (u.timer \/ tb_timer)
           /\ tb_waiters' = w.waiters
           /\ tb_coro' = [d \in Coros |-> IF d = c THEN "done"
                                          ELSE IF d \in w.woken THEN "woken"
                                          ELSE tb_coro[d]]
           /\ tb_hist' = [left |-> u.tokens, admitted |-> 0, fired |-> FALSE]

\* The request of c raises: _limited_request is left without update_tokens.
TbRequestRaises(c) ==
    /\ tb_coro[c] = "holding"
    /\ tb_coro' = [tb_coro EXCEPT ![c] = "failed"]
    /\ UNCHANGED <<tb_tokens, tb_reset, tb_waiters, tb_timer, tb_hist>>

\* The timer sets the event: _reset_tokens puts one token and wakes a waiter.
TbResetTokens ==
    /\ tb_timer
    /\ LET w == wake_up_next(tb_waiters, 1)
       IN  /\ tb_tokens' = 1
           /\ tb_timer' = FALSE
           /\ tb_waiters' = w.waiters
           /\ tb_coro' = [d \in Coros |-> IF d \in w.woken THEN "woken" ELSE tb_coro[d]]
           /\ tb_hist' = [tb_hist EXCEPT !.fired = TRUE]
    /\ UNCHANGED tb_reset

\* ----------------------------------- TwitchStreamDownloader.wait_for_vod

\* timedelta(minutes=1), in seconds.
MINUTE == 60

\* Times, in seconds, of the events and of the videos listed.
StartedAts == {60, 61}
CreatedAts == {0, 1, 2, 60, 120, 121}

Abs(x) == IF x < 0 THEN 0 - x ELSE x

\* A test that also takes a video exactly one minute away.
within_minute_or_at(created_at, started_at) == Abs(created_at - started_at) <= MINUTE

\* abs(video.created_at - started_at) < timedelta(minutes=1)
within_minute(created_at, started_at) == Abs(created_at - started_at) < MINUTE

\* The listings get_videos(channel, 'archive', limit=5) may return: videos
\* with different ids, MaxListed at most.
Listings ==
    {l \in UNION {[1..n -> [id : 1..MaxListed, created_at : CreatedAts]] : n \in 0..MaxListed} :
        \A i, j \in 1..Len(l) : i # j => l[i].id # l[j].id}

\* The for loop of wait_for_vod: the id of the first video of the listing
\* that passes the test, or None.
first_vod(listing, started_at) ==
    LET hits == {i \in 1..Len(listing) : within_minute(listing[i].created_at, started_at)}
    IN  IF hits = {} THEN None
        ELSE listing[CHOOSE i \in hits : \A j \in hits : i <= j].id

NoPolls == [polls |-> 0, nomatch |-> 0, awaiting |-> 0, sleeps |-> 0]

WvNew(started_at) ==
    /\ wv_started_at = started_at /\ wv_pc = "idle" /\ wv_listing = <<>>
    /\ wv_vod = None /\ wv_hist = NoPolls

WvIdle == WvNew(60)

\* download(event, file) with stream_type VOD: wait_for_vod is entered.
WvDownload ==
    /\ wv_pc = "idle"
    /\ wv_pc' = "poll"
    /\ UNCHANGED <<wv_started_at, wv_listing, wv_vod, wv_hist>>

\* get_videos raises: so do wait_for_vod and download.
WvPollRaises ==
    /\ wv_pc = "poll"
    /\ wv_pc' = "raised"
    /\ wv_hist' = [wv_hist EXCEPT !.polls = @ + 1]
    /\ UNCHANGED <<wv_started_at, wv_listing, wv_vod>>

\* One turn of the loop of wait_for_vod up to its sleep: a video found
\* is returned and download_archive is called with it; otherwise
\* AwaitingStream is published.
WvPoll(listing, outcome) ==
    /\ wv_pc = "poll"
    /\ LET vod == first_vod(listing, wv_started_at)
       IN  /\ vod = None => wv_hist.nomatch < MaxPolls
           /\ wv_listing' = listing
           /\ IF vod # None
              THEN /\ wv_vod' = vod
                   /\ wv_pc' = "archive"
                   /\ wv_hist' = [wv_hist EXCEPT !.polls = @ + 1]
              ELSE /\ wv_pc' = IF outcome = "raised" THEN "raised" ELSE "sleep"
                   /\ wv_hist' = [wv_hist EXCEPT !.polls = @ + 1, !.nomatch = @ + 1,
                                                 !.awaiting = @ + 1]
                   /\ UNCHANGED wv_vod
    /\ UNCHANGED wv_started_at

\* asyncio.sleep(WAIT_VOD_DELAY) is over.
WvWake ==
    /\ wv_pc = "sleep"
    /\ wv_pc' = "poll"
    /\ wv_hist' = [wv_hist EXCEPT !.sleeps = @ + 1]
    /\ UNCHANGED <<wv_started_at, wv_listing, wv_vod>>

\* ----------------------------------------------- a retry_on_exception call

NoAttempt == [last |-> "none", listed |-> 0]

RtNew(max_tries) ==
    /\ rt_max = max_tries
    /\ rt_task = [st |-> "pending", tries |-> 0]
    /\ rt_hist = NoAttempt

RtIdle == RtNew(SEGMENT_MAX_TRIES)

\* One turn of the wrapper's loop: the coroutine is awaited and ends with
\* the outcome; after a listed exception below max_tries the wrapper sleeps.
RtAttempt(outcome) ==
    /\ rt_task.st = "pending"
    /\ rt_task' = retry_on_exception(rt_task, outcome, rt_max)
    /\ rt_hist' = [last |-> outcome,
                   listed |-> rt_hist.listed +
                                 (IF outcome = "ClientResponseError" THEN 1 ELSE 0)]
    /\ UNCHANGED rt_max

\* ------------------------------------------- TwitchLivePlaylist.update

\* media_sequence of the first playlist fetched.
FirstSeqs == {0, 100}

NoUpdateCall == [first_n |-> 0, count |-> 0, raised |-> FALSE, called |-> FALSE]

LpIdle ==
    /\ lp_prev = [len |-> 0, last |-> 0]
    /\ lp_call = NoUpdateCall

\* update() with a playlist fetched whose media_sequence is first_n and
\* which lists count files.
LpUpdate(first_n, count) ==
    /\ LET u == live_update(lv_segments, first_n, count) IN
        /\ lv_segments' = u.segments
        /\ lp_call' = [first_n |-> first_n, count |-> count, raised |-> u.raised,
                       called |-> TRUE]
    /\ lp_prev' = [len |-> Len(lv_segments),
                   last |-> IF lv_segments = <<>> THEN 0 ELSE lv_segments[Len(lv_segments)]]
    /\ UNCHANGED <<lv_pc, lv_endlist, lv_task, lv_last_segment, lv_events, lv_gap, lv_error,
                   vwVars>>

\* --------------------------------------------------------- BaseEventMeta

\* max_inheritance_level of the class statement of BaseEvent.
BASE_MAX_INHERITANCE_LEVEL == 1

\* The for loop of BaseEventMeta.__new__ over the bases (each [level, max]),
\* from the values set before it.
RECURSIVE inherit_levels(_, _)
inherit_levels(cls, bases) ==
    IF bases = <<>> THEN cls
    ELSE LET base == Head(bases)
             next == IF cls.level <= base.level
                     THEN [level |-> base.level + 1, max |-> base.max]
                     ELSE cls
         IN inherit_levels(next, Tail(bases))

\* BaseEventMeta.__new__(name, bases, dct, max_inheritance_level): the
\* levels of the class, and whether ValueError is raised.
meta_new(bases, max_inheritance_level) ==
    LET cls == inherit_levels([level |-> 0, max |-> max_inheritance_level], bases)
    IN [level |-> cls.level, max |-> cls.max, raised |-> cls.level > cls.max]

\* class BaseEvent(metaclass=BaseEventMeta, max_inheritance_level=1)
BaseEvent ==
    LET c == meta_new(<<>>, BASE_MAX_INHERITANCE_LEVEL) IN [level |-> c.level, max |-> c.max]

NoStatement == [bases |-> <<>>, level |-> 0, raised |-> FALSE]

EvIdle ==
    /\ ev_classes = <<BaseEvent>>
    /\ ev_last = NoStatement

\* The base lists of a class statement: different classes, in an order.
BaseLists(n) ==
    {b \in UNION {[1..k -> 1..n] : k \in 1..MaxBases} :
        \A i, j \in 1..Len(b) : i # j => b[i] # b[j]}

\* A class statement `class X(bases...)` on event classes.
EvDefine(bases) ==
    /\ Len(ev_classes) < MaxClasses
    /\ LET c == meta_new([i \in 1..Len(bases) |-> ev_classes[bases[i]]], 0) IN
        /\ ev_last' = [bases |-> bases, level |-> c.level, raised |-> c.raised]
        /\ ev_classes' = IF c.raised THEN ev_classes
                         ELSE Append(ev_classes, [level |-> c.level, max |-> c.max])

\* -------------------------------------------------------- parse_duration

\* Seconds of a day: timedelta keeps whole days apart from its seconds.
DAY == 86400

\* duration_re.fullmatch(string).groupdict(): the digits of each part as a
\* number, None for a part the string does not have.
groupdict(string) ==
    [hours |-> string.hours, minutes |-> string.minutes, seconds |-> string.seconds]

\* any(groupdict): Python iterates the keys of the dict, which are
\* non-empty strings.
any_groupdict(groups) == DOMAIN groups # {}

\* timedelta(**{k: int(v) for k, v in groups.items() if v}).seconds
timedelta_seconds(groups) ==
    LET part(v) == IF v = None THEN 0 ELSE v
    IN (3600 * part(groups.hours) + 60 * part(groups.minutes) + part(groups.seconds)) % DAY

parse_duration(string) ==
    LET groups == groupdict(string)
    IN IF ~any_groupdict(groups)
       THEN [raised |-> TRUE, value |-> 0, called |-> TRUE]
       ELSE [raised |-> FALSE, value |-> timedelta_seconds(groups), called |-> TRUE]

NoParse == [raised |-> FALSE, value |-> 0, called |-> FALSE]

PdNew(h, m, s) ==
    /\ pd_string = [hours |-> h, minutes |-> m, seconds |-> s]
    /\ pd_result = NoParse

PdIdle == PdNew(None, None, None)

\* parse_duration(pd_string) is called.
PdParse ==
    /\ ~pd_result.called
    /\ pd_result' = parse_duration(pd_string)
    /\ UNCHANGED pd_string

\* ---------------------------------------------------------- specifications

\* download_segments alone: the arguments are drawn, then the call is made.
InitSegments ==
    /\ DsIdle
    /\ DmIdle
    /\ PdIdle
    /\ EvIdle
    /\ LpIdle
    /\ RtIdle
    /\ WvIdle
    /\ TbIdle
    /\ HxIdle
    /\ BusIdle
    /\ TrIdle /\ tr_kind = "regular"
    /\ SdIdle /\ sd_stream_type = "VOD"
    /\ LvIdle
    /\ GvIdle
    /\ \E first \in 0..1, n \in 0..MaxLen : ds_segments = Run(first, n)
    /\ ds_conc \in 1..MaxConc

CallSegments ==
    /\ ds_pc = "idle"
    /\ download_segments(ds_segments, ds_conc)

NextSegments ==
    \/ CallSegments /\ UNCHANGED <<dmVars, busVars, trVars, whVars, rnVars, sdVars, lvVars, vwVars, gvVars, hxVars, tbVars, wvVars, rtVars, lpVars, evVars, pdVars>>
    \/ (\E i \in 1..MaxLen, o \in FetchOutcomes : FetchAttempt(i, o)) /\ UNCHANGED <<dmVars, busVars, trVars, whVars, rnVars, sdVars, lvVars, vwVars, gvVars, hxVars, tbVars, wvVars, rtVars, lpVars, evVars, pdVars>>
    \/ WaitGroupReturn /\ UNCHANGED <<dmVars, busVars, trVars, whVars, rnVars, sdVars, lvVars, vwVars, gvVars, hxVars, tbVars, wvVars, rtVars, lpVars, evVars, pdVars>>

SpecSegments == InitSegments /\ [][NextSegments]_vars

InitArchive ==
    /\ DsIdle
    /\ DmIdle
    /\ PdIdle
    /\ EvIdle
    /\ LpIdle
    /\ RtIdle
    /\ WvIdle
    /\ TbIdle
    /\ HxIdle
    /\ BusIdle
    /\ TrIdle /\ tr_kind = "regular"
    /\ SdIdle /\ sd_stream_type = "VOD"
    /\ LvIdle
    /\ GvIdle
    /\ ds_segments = <<>>
    /\ ds_conc = N_CONCURRENT_DOWNLOADS

NextArchive ==
    \/ (\E len \in 0..MaxLen, e \in BOOLEAN, r \in BOOLEAN, a \in {None, 0, 1},
           o \in PublishOutcomes : DmStart(len, e, r, a, o)) /\ UNCHANGED <<busVars, trVars, whVars, rnVars, sdVars, lvVars, vwVars, gvVars, hxVars, tbVars, wvVars, rtVars, lpVars, evVars, pdVars>>
    \/ (\E len \in 0..MaxLen, e \in BOOLEAN : PeriodicUpdate(len, e)) /\ UNCHANGED <<busVars, trVars, whVars, rnVars, sdVars, lvVars, vwVars, gvVars, hxVars, tbVars, wvVars, rtVars, lpVars, evVars, pdVars>>
    \/ (\E o \in PublishOutcomes : DmLoopTop(o)) /\ UNCHANGED <<busVars, trVars, whVars, rnVars, sdVars, lvVars, vwVars, gvVars, hxVars, tbVars, wvVars, rtVars, lpVars, evVars, pdVars>>
    \/ (\E i \in 1..MaxLen, o \in FetchOutcomes : FetchAttempt(i, o))
          /\ UNCHANGED <<dmVars, busVars, trVars, whVars, rnVars, sdVars, lvVars, vwVars, gvVars, hxVars, tbVars, wvVars, rtVars, lpVars, evVars, pdVars>>
    \/ WaitGroupReturn /\ UNCHANGED <<dmVars, busVars, trVars, whVars, rnVars, sdVars, lvVars, vwVars, gvVars, hxVars, tbVars, wvVars, rtVars, lpVars, evVars, pdVars>>
    \/ (\E len \in 0..MaxLen, e \in BOOLEAN, r \in BOOLEAN, u \in BOOLEAN :
           DmAfterSegments(len, e, r, u)) /\ UNCHANGED <<busVars, trVars, whVars, rnVars, sdVars, lvVars, vwVars, gvVars, hxVars, tbVars, wvVars, rtVars, lpVars, evVars, pdVars>>

SpecArchive == InitArchive /\ [][NextArchive]_vars

InitBus ==
    /\ DsIdle
    /\ DmIdle
    /\ PdIdle
    /\ EvIdle
    /\ LpIdle
    /\ RtIdle
    /\ WvIdle
    /\ TbIdle
    /\ HxIdle
    /\ ds_segments = <<>>
    /\ ds_conc = N_CONCURRENT_DOWNLOADS
    /\ BusIdle
    /\ TrIdle /\ tr_kind = "regular"
    /\ SdIdle /\ sd_stream_type = "VOD"
    /\ LvIdle
    /\ GvIdle

NextBus ==
    \/ (\E s \in Subscribers, t \in EventTypes : subscribe(s, t)) /\ UNCHANGED <<dsVars, dmVars, trVars, whVars, rnVars, sdVars, lvVars, vwVars, gvVars, hxVars, tbVars, wvVars, rtVars, lpVars, evVars, pdVars>>
    \/ (\E s \in Subscribers, t \in EventTypes : unsubscribe(s, t)) /\ UNCHANGED <<dsVars, dmVars, trVars, whVars, rnVars, sdVars, lvVars, vwVars, gvVars, hxVars, tbVars, wvVars, rtVars, lpVars, evVars, pdVars>>
    \/ (\E p \in Publishers, t \in EventTypes : publish(p, t)) /\ UNCHANGED <<dsVars, dmVars, trVars, whVars, rnVars, sdVars, lvVars, vwVars, gvVars, hxVars, tbVars, wvVars, rtVars, lpVars, evVars, pdVars>>
    \/ HandlerStart /\ UNCHANGED <<dsVars, dmVars, trVars, whVars, rnVars, sdVars, lvVars, vwVars, gvVars, hxVars, tbVars, wvVars, rtVars, lpVars, evVars, pdVars>>
    \/ HandlerReturn /\ UNCHANGED <<dsVars, dmVars, trVars, whVars, rnVars, sdVars, lvVars, vwVars, gvVars, hxVars, tbVars, wvVars, rtVars, lpVars, evVars, pdVars>>
    \/ HandlerRaise /\ UNCHANGED <<dsVars, dmVars, trVars, whVars, rnVars, sdVars, lvVars, vwVars, gvVars, hxVars, tbVars, wvVars, rtVars, lpVars, evVars, pdVars>>
    \/ NotifyReturn /\ UNCHANGED <<dsVars, dmVars, trVars, whVars, rnVars, sdVars, lvVars, vwVars, gvVars, hxVars, tbVars, wvVars, rtVars, lpVars, evVars, pdVars>>

SpecBus == InitBus /\ [][NextBus]_vars

\* A tracker of either class, constructed by create_tracker.
InitTracker ==
    /\ DsIdle
    /\ DmIdle
    /\ PdIdle
    /\ EvIdle
    /\ LpIdle
    /\ RtIdle
    /\ WvIdle
    /\ TbIdle
    /\ HxIdle
    /\ ds_segments = <<>>
    /\ ds_conc = N_CONCURRENT_DOWNLOADS
    /\ BusIdle
    /\ SdIdle /\ sd_stream_type = "VOD"
    /\ LvIdle
    /\ GvIdle
    /\ TrIdle
    /\ tr_kind \in {"regular", "webhook"}

NextTracker ==
    \/ TrRun /\ UNCHANGED <<dsVars, dmVars, busVars, sdVars, lvVars, vwVars, gvVars, hxVars, tbVars, wvVars, rtVars, lpVars, evVars, pdVars>>
    \/ TrStop /\ UNCHANGED <<dsVars, dmVars, busVars, rnVars, sdVars, lvVars, vwVars, gvVars, hxVars, tbVars, wvVars, rtVars, lpVars, evVars, pdVars>>
    \/ WhStopCleanup /\ UNCHANGED <<dsVars, dmVars, busVars, rnVars, sdVars, lvVars, vwVars, gvVars, hxVars, tbVars, wvVars, rtVars, lpVars, evVars, pdVars>>
    \/ (\E ok \in BOOLEAN : WhStopUnregister(ok)) /\ UNCHANGED <<dsVars, dmVars, busVars, rnVars, sdVars, lvVars, vwVars, gvVars, hxVars, tbVars, wvVars, rtVars, lpVars, evVars, pdVars>>
    \/ TrRunReturn /\ UNCHANGED <<dsVars, dmVars, busVars, rnVars, sdVars, lvVars, vwVars, gvVars, hxVars, tbVars, wvVars, rtVars, lpVars, evVars, pdVars>>
    \/ (\E streams \in [Channels -> Streams \cup {None}], fail \in 0..Cardinality(Channels) :
           Poll(streams, fail)) /\ UNCHANGED <<dsVars, dmVars, busVars, rnVars, sdVars, lvVars, vwVars, gvVars, hxVars, tbVars, wvVars, rtVars, lpVars, evVars, pdVars>>
    \/ PollQueryRaises /\ UNCHANGED <<dsVars, dmVars, busVars, rnVars, sdVars, lvVars, vwVars, gvVars, hxVars, tbVars, wvVars, rtVars, lpVars, evVars, pdVars>>
    \/ (\E c \in Channels, info \in Streams \cup {None} : PostArrive(c, info, FreshId))
          /\ UNCHANGED <<dsVars, dmVars, busVars, rnVars, sdVars, lvVars, vwVars, gvVars, hxVars, tbVars, wvVars, rtVars, lpVars, evVars, pdVars>>
    \/ (\E i \in 1..MaxInflight : PostPrepareRaises(i)) /\ UNCHANGED <<dsVars, dmVars, busVars, rnVars, sdVars, lvVars, vwVars, gvVars, hxVars, tbVars, wvVars, rtVars, lpVars, evVars, pdVars>>
    \/ (\E i \in 1..MaxInflight, o1 \in PublishOutcomes, o2 \in PublishOutcomes :
           PostHandle(i, o1, o2)) /\ UNCHANGED <<dsVars, dmVars, busVars, rnVars, sdVars, lvVars, vwVars, gvVars, hxVars, tbVars, wvVars, rtVars, lpVars, evVars, pdVars>>

SpecTracker == InitTracker /\ [][NextTracker]_vars

\* The HTTP server of a webhook tracker: its two endpoints, one
\* notification at a time for one channel, and stop().
InitWebhook ==
    /\ DsIdle
    /\ DmIdle
    /\ PdIdle
    /\ EvIdle
    /\ LpIdle
    /\ RtIdle
    /\ WvIdle
    /\ TbIdle
    /\ HxIdle
    /\ ds_segments = <<>>
    /\ ds_conc = N_CONCURRENT_DOWNLOADS
    /\ BusIdle
    /\ SdIdle /\ sd_stream_type = "VOD"
    /\ LvIdle
    /\ GvIdle
    /\ TrIdle
    /\ tr_kind = "webhook"

NextWebhook ==
    \/ TrRun /\ UNCHANGED <<dsVars, dmVars, busVars, sdVars, lvVars, vwVars, gvVars, hxVars, tbVars, wvVars, rtVars, lpVars, evVars, pdVars>>
    \/ WhStopCleanup /\ UNCHANGED <<dsVars, dmVars, busVars, rnVars, sdVars, lvVars, vwVars, gvVars, hxVars, tbVars, wvVars, rtVars, lpVars, evVars, pdVars>>
    \/ (\E ok \in BOOLEAN : WhStopUnregister(ok)) /\ UNCHANGED <<dsVars, dmVars, busVars, rnVars, sdVars, lvVars, vwVars, gvVars, hxVars, tbVars, wvVars, rtVars, lpVars, evVars, pdVars>>
    \/ TrRunReturn /\ UNCHANGED <<dsVars, dmVars, busVars, rnVars, sdVars, lvVars, vwVars, gvVars, hxVars, tbVars, wvVars, rtVars, lpVars, evVars, pdVars>>
    \/ (\E kind \in {"get", "post"} : RequestUntracked(kind))
          /\ UNCHANGED <<dsVars, dmVars, busVars, rnVars, sdVars, lvVars, vwVars, gvVars, hxVars, tbVars, wvVars, rtVars, lpVars, evVars, pdVars>>
    \/ (\E c \in Channels, sig \in {"missing", "malformed", "wrong", "valid"},
           id \in NotificationIds \cup {NoId} : PostReject(c, sig, id))
          /\ UNCHANGED <<dsVars, dmVars, busVars, rnVars, sdVars, lvVars, vwVars, gvVars, hxVars, tbVars, wvVars, rtVars, lpVars, evVars, pdVars>>
    \/ (\E info \in {1, None}, id \in NotificationIds :
           posts = <<>> /\ PostArrive("c1", info, id))
          /\ UNCHANGED <<dsVars, dmVars, busVars, rnVars, sdVars, lvVars, vwVars, gvVars, hxVars, tbVars, wvVars, rtVars, lpVars, evVars, pdVars>>
    \/ (\E i \in 1..MaxInflight : PostPrepareRaises(i)) /\ UNCHANGED <<dsVars, dmVars, busVars, rnVars, sdVars, lvVars, vwVars, gvVars, hxVars, tbVars, wvVars, rtVars, lpVars, evVars, pdVars>>
    \/ (\E i \in 1..MaxInflight, o1 \in PublishOutcomes, o2 \in PublishOutcomes :
           PostHandle(i, o1, o2)) /\ UNCHANGED <<dsVars, dmVars, busVars, rnVars, sdVars, lvVars, vwVars, gvVars, hxVars, tbVars, wvVars, rtVars, lpVars, evVars, pdVars>>
    \/ (\E c \in Channels, mode \in {"subscribe", "unsubscribe", "denied", "other"},
           ch \in BOOLEAN : Get(c, mode, ch)) /\ UNCHANGED <<dsVars, dmVars, busVars, rnVars, sdVars, lvVars, vwVars, gvVars, hxVars, tbVars, wvVars, rtVars, lpVars, evVars, pdVars>>

SpecWebhook == InitWebhook /\ [][NextWebhook]_vars

\* The renewal task of a webhook tracker against a clock, with the
\* verification requests of the hub and stop().
NextRenewal ==
    \/ TrRun /\ UNCHANGED <<dsVars, dmVars, busVars, sdVars, lvVars, vwVars, gvVars, hxVars, tbVars, wvVars, rtVars, lpVars, evVars, pdVars>>
    \/ (\E ok \in BOOLEAN, found \in SUBSET Channels : RenewRegister(ok, found))
          /\ UNCHANGED <<dsVars, dmVars, busVars, sdVars, lvVars, vwVars, gvVars, hxVars, tbVars, wvVars, rtVars, lpVars, evVars, pdVars>>
    \/ RenewRegistered /\ UNCHANGED <<dsVars, dmVars, busVars, sdVars, lvVars, vwVars, gvVars, hxVars, tbVars, wvVars, rtVars, lpVars, evVars, pdVars>>
    \/ RenewWake /\ UNCHANGED <<dsVars, dmVars, busVars, sdVars, lvVars, vwVars, gvVars, hxVars, tbVars, wvVars, rtVars, lpVars, evVars, pdVars>>
    \/ Tick /\ UNCHANGED <<dsVars, dmVars, busVars, sdVars, lvVars, vwVars, gvVars, hxVars, tbVars, wvVars, rtVars, lpVars, evVars, pdVars>>
    \/ (\E c \in Channels, mode \in {"subscribe", "unsubscribe", "denied"} :
           Get(c, mode, TRUE)) /\ UNCHANGED <<dsVars, dmVars, busVars, rnVars, sdVars, lvVars, vwVars, gvVars, hxVars, tbVars, wvVars, rtVars, lpVars, evVars, pdVars>>
    \/ WhStopCleanup /\ UNCHANGED <<dsVars, dmVars, busVars, rnVars, sdVars, lvVars, vwVars, gvVars, hxVars, tbVars, wvVars, rtVars, lpVars, evVars, pdVars>>
    \/ (\E ok \in BOOLEAN : WhStopUnregister(ok)) /\ UNCHANGED <<dsVars, dmVars, busVars, rnVars, sdVars, lvVars, vwVars, gvVars, hxVars, tbVars, wvVars, rtVars, lpVars, evVars, pdVars>>
    \/ TrRunReturn /\ UNCHANGED <<dsVars, dmVars, busVars, rnVars, sdVars, lvVars, vwVars, gvVars, hxVars, tbVars, wvVars, rtVars, lpVars, evVars, pdVars>>

SpecRenewal == InitWebhook /\ [][NextRenewal]_vars

\* A stream downloader of either stream type handling StreamOnline events.
InitDownloader ==
    /\ DsIdle
    /\ DmIdle
    /\ PdIdle
    /\ EvIdle
    /\ LpIdle
    /\ RtIdle
    /\ WvIdle
    /\ TbIdle
    /\ HxIdle
    /\ ds_segments = <<>>
    /\ ds_conc = N_CONCURRENT_DOWNLOADS
    /\ BusIdle
    /\ TrIdle /\ tr_kind = "regular"
    /\ SdIdle
    /\ sd_stream_type \in {"LIVE", "VOD"}
    /\ LvIdle
    /\ GvIdle

NextDownloader ==
    \/ (\E k \in StreamKeys : HandleStreamOnline(k))
          /\ UNCHANGED <<dsVars, dmVars, busVars, trVars, whVars, rnVars, lvVars, vwVars, gvVars, hxVars, tbVars, wvVars, rtVars, lpVars, evVars, pdVars>>
    \/ (\E i \in 1..Cardinality(StreamKeys) : VodFound(i))
          /\ UNCHANGED <<dsVars, dmVars, busVars, trVars, whVars, rnVars, lvVars, vwVars, gvVars, hxVars, tbVars, wvVars, rtVars, lpVars, evVars, pdVars>>
    \/ (\E i \in 1..Cardinality(StreamKeys), o \in DownloadOutcomes : DownloadEnds(i, o))
          /\ UNCHANGED <<dsVars, dmVars, busVars, trVars, whVars, rnVars, lvVars, vwVars, gvVars, hxVars, tbVars, wvVars, rtVars, lpVars, evVars, pdVars>>

SpecDownloader == InitDownloader /\ [][NextDownloader]_vars

\* One call of download_live.
InitLive == InitArchive

NextLive ==
    \/ (\E f \in 0..MaxSeq, c \in 1..SnapLen, e \in BOOLEAN, o \in PublishOutcomes :
           LvStart(f, c, e, o))
          /\ UNCHANGED <<dmVars, busVars, trVars, whVars, rnVars, sdVars, gvVars, hxVars, tbVars, wvVars, rtVars, lpVars, evVars, pdVars>>
    \/ (\E f \in 0..MaxSeq, c \in 1..SnapLen, e \in BOOLEAN, o \in UpdateOutcomes :
           LvPeriodicUpdate(f, c, e, o))
          /\ UNCHANGED <<dmVars, busVars, trVars, whVars, rnVars, sdVars, gvVars, hxVars, tbVars, wvVars, rtVars, lpVars, evVars, pdVars>>
    \/ (\E o \in PublishOutcomes : LvLoopTop(o))
          /\ UNCHANGED <<dmVars, busVars, trVars, whVars, rnVars, sdVars, gvVars, hxVars, tbVars, wvVars, rtVars, lpVars, evVars, pdVars>>
    \/ (\E i \in 1..SnapLen + 1, o \in FetchOutcomes : FetchAttempt(i, o))
          /\ UNCHANGED <<dmVars, busVars, trVars, whVars, rnVars, sdVars, lvVars, vwVars, gvVars, hxVars, tbVars, wvVars, rtVars, lpVars, evVars, pdVars>>
    \/ (lv_pc = "ds" /\ WaitGroupReturn)
          /\ UNCHANGED <<dmVars, busVars, trVars, whVars, rnVars, sdVars, lvVars, vwVars, gvVars, hxVars, tbVars, wvVars, rtVars, lpVars, evVars, pdVars>>
    \/ (\E f \in 0..MaxSeq, c \in 1..SnapLen, e \in BOOLEAN, o \in UpdateOutcomes :
           LvAfterSegments(f, c, e, o))
          /\ UNCHANGED <<dmVars, busVars, trVars, whVars, rnVars, sdVars, gvVars, hxVars, tbVars, wvVars, rtVars, lpVars, evVars, pdVars>>

SpecLive == InitLive /\ [][NextLive]_vars

\* A view of either class, updated and asked for the segments after a marker.
InitViews ==
    /\ DsIdle
    /\ DmIdle
    /\ PdIdle
    /\ EvIdle
    /\ LpIdle
    /\ RtIdle
    /\ WvIdle
    /\ TbIdle
    /\ HxIdle
    /\ ds_segments = <<>>
    /\ ds_conc = N_CONCURRENT_DOWNLOADS
    /\ BusIdle
    /\ TrIdle /\ tr_kind = "regular"
    /\ SdIdle /\ sd_stream_type = "VOD"
    /\ lv_pc = "idle" /\ lv_segments = <<>> /\ lv_endlist = FALSE /\ lv_task = "none"
    /\ lv_last_segment = None /\ lv_events = <<>> /\ lv_gap = FALSE /\ lv_error = "none"
    /\ vw_kind \in {"vod", "live"} /\ vw_marker = None /\ vw_result = NoResult
    /\ GvIdle

NextViews ==
    \/ (\E len \in 1..MaxLen : VwUpdateVod(len))
          /\ UNCHANGED <<dsVars, busVars, trVars, whVars, rnVars, sdVars, gvVars, hxVars, tbVars, wvVars, rtVars, lpVars, evVars, pdVars>>
    \/ (\E f \in 0..MaxSeq, c \in 1..SnapLen : VwUpdateLive(f, c))
          /\ UNCHANGED <<dsVars, busVars, trVars, whVars, rnVars, sdVars, gvVars, hxVars, tbVars, wvVars, rtVars, lpVars, evVars, pdVars>>
    \/ (\E m \in 0..(MaxSeq + SnapLen) : VwGetSegmentsAfter(m))
          /\ UNCHANGED <<dsVars, busVars, trVars, whVars, rnVars, sdVars, gvVars, hxVars, tbVars, wvVars, rtVars, lpVars, evVars, pdVars>>

SpecViews == InitViews /\ [][NextViews]_vars

\* One call of get_videos on either adapter.
InitVideos ==
    /\ DsIdle
    /\ DmIdle
    /\ PdIdle
    /\ EvIdle
    /\ LpIdle
    /\ RtIdle
    /\ WvIdle
    /\ TbIdle
    /\ HxIdle
    /\ ds_segments = <<>>
    /\ ds_conc = N_CONCURRENT_DOWNLOADS
    /\ BusIdle
    /\ TrIdle /\ tr_kind = "regular"
    /\ SdIdle /\ sd_stream_type = "VOD"
    /\ LvIdle
    /\ gv_adapter \in {"v5", "helix"}
    /\ gv_limit \in 0..MaxLimit
    /\ gv_total \in 0..MaxVideos
    /\ gv_pc = "idle" /\ gv_gen = offset_generator(None) /\ gv_cursor = None
    /\ gv_videos = <<>> /\ gv_requested = 0 /\ gv_largest = 0

NextVideos ==
    \/ GvCall
          /\ UNCHANGED <<dsVars, dmVars, busVars, trVars, whVars, rnVars, sdVars, lvVars, vwVars, hxVars, tbVars, wvVars, rtVars, lpVars, evVars, pdVars>>
    \/ (\E c \in BOOLEAN : GvPage(c))
          /\ UNCHANGED <<dsVars, dmVars, busVars, trVars, whVars, rnVars, sdVars, lvVars, vwVars, hxVars, tbVars, wvVars, rtVars, lpVars, evVars, pdVars>>
    \/ GvReturn
          /\ UNCHANGED <<dsVars, dmVars, busVars, trVars, whVars, rnVars, sdVars, lvVars, vwVars, hxVars, tbVars, wvVars, rtVars, lpVars, evVars, pdVars>>

SpecVideos == InitVideos /\ [][NextVideos]_vars

\* Requests of a Helix client, one after the other, while the clock runs.
InitHelix ==
    /\ DsIdle
    /\ DmIdle
    /\ PdIdle
    /\ EvIdle
    /\ LpIdle
    /\ RtIdle
    /\ WvIdle
    /\ TbIdle
    /\ ds_segments = <<>>
    /\ ds_conc = N_CONCURRENT_DOWNLOADS
    /\ BusIdle
    /\ TrIdle /\ tr_kind = "regular"
    /\ SdIdle /\ sd_stream_type = "VOD"
    /\ LvIdle
    /\ GvIdle
    /\ \E secret \in BOOLEAN : HxNew(secret)

NextHelix ==
    \/ (\E ok \in BOOLEAN, e \in ExpiresIn : HxRequest(ok, e))
          /\ UNCHANGED <<dsVars, dmVars, busVars, trVars, whVars, rnVars, sdVars, lvVars, vwVars, gvVars, tbVars, wvVars, rtVars, lpVars, evVars, pdVars>>
    \/ HxLoopTop
          /\ UNCHANGED <<dsVars, dmVars, busVars, trVars, whVars, rnVars, sdVars, lvVars, vwVars, gvVars, tbVars, wvVars, rtVars, lpVars, evVars, pdVars>>
    \/ (\E status \in Statuses : HxAnswer(status))
          /\ UNCHANGED <<dsVars, dmVars, busVars, trVars, whVars, rnVars, sdVars, lvVars, vwVars, gvVars, tbVars, wvVars, rtVars, lpVars, evVars, pdVars>>
    \/ (\E ok \in BOOLEAN, e \in ExpiresIn : HxAuthorize(ok, e))
          /\ UNCHANGED <<dsVars, dmVars, busVars, trVars, whVars, rnVars, sdVars, lvVars, vwVars, gvVars, tbVars, wvVars, rtVars, lpVars, evVars, pdVars>>
    \/ HxTick
          /\ UNCHANGED <<dsVars, dmVars, busVars, trVars, whVars, rnVars, sdVars, lvVars, vwVars, gvVars, tbVars, wvVars, rtVars, lpVars, evVars, pdVars>>

SpecHelix == InitHelix /\ [][NextHelix]_vars

\* The coroutines of a Helix client on its token bucket.
InitBucket ==
    /\ DsIdle
    /\ DmIdle
    /\ PdIdle
    /\ EvIdle
    /\ LpIdle
    /\ RtIdle
    /\ WvIdle
    /\ TbIdle
    /\ HxIdle
    /\ ds_segments = <<>>
    /\ ds_conc = N_CONCURRENT_DOWNLOADS
    /\ BusIdle
    /\ TrIdle /\ tr_kind = "regular"
    /\ SdIdle /\ sd_stream_type = "VOD"
    /\ LvIdle
    /\ GvIdle

TbOthers == <<dsVars, dmVars, busVars, trVars, whVars, rnVars, sdVars, lvVars, vwVars, gvVars, hxVars, wvVars, rtVars, lpVars, evVars, pdVars>>

TbAcquireStep == (\E c \in Coros : TbAcquire(c)) /\ UNCHANGED TbOthers
TbResumeStep == (\E c \in Coros : TbResume(c)) /\ UNCHANGED TbOthers
TbResponseStep ==
    (\E c \in Coros, remaining \in 0..MaxRemaining, reset \in 1..MaxReset :
        TbResponse(c, remaining, reset)) /\ UNCHANGED TbOthers
TbRequestRaisesStep == (\E c \in Coros : TbRequestRaises(c)) /\ UNCHANGED TbOthers
TbResetTokensStep == TbResetTokens /\ UNCHANGED TbOthers

NextBucket ==
    \/ TbAcquireStep
    \/ TbResumeStep
    \/ TbResponseStep
    \/ TbRequestRaisesStep
    \/ TbResetTokensStep

SpecBucket == InitBucket /\ [][NextBucket]_vars

\* The event loop runs every coroutine that is ready, every request ends
\* (with a response or an exception) and every timer fires.
SpecBucketFair ==
    /\ SpecBucket
    /\ WF_vars(TbAcquireStep)
    /\ WF_vars(TbResumeStep)
    /\ WF_vars(TbResponseStep \/ TbRequestRaisesStep)
    /\ WF_vars(TbResetTokensStep)

\* One download in VOD mode, from the event to the call of download_archive.
InitWaitVod ==
    /\ DsIdle
    /\ DmIdle
    /\ PdIdle
    /\ EvIdle
    /\ LpIdle
    /\ RtIdle
    /\ HxIdle
    /\ TbIdle
    /\ ds_segments = <<>>
    /\ ds_conc = N_CONCURRENT_DOWNLOADS
    /\ BusIdle
    /\ TrIdle /\ tr_kind = "regular"
    /\ SdIdle /\ sd_stream_type = "VOD"
    /\ LvIdle
    /\ GvIdle
    /\ \E started_at \in StartedAts : WvNew(started_at)

WvOthers == <<dsVars, dmVars, busVars, trVars, whVars, rnVars, sdVars, lvVars, vwVars, gvVars, hxVars, tbVars, rtVars, lpVars, evVars, pdVars>>

NextWaitVod ==
    \/ WvDownload /\ UNCHANGED WvOthers
    \/ WvPollRaises /\ UNCHANGED WvOthers
    \/ (\E l \in Listings, o \in PublishOutcomes : WvPoll(l, o)) /\ UNCHANGED WvOthers
    \/ WvWake /\ UNCHANGED WvOthers

SpecWaitVod == InitWaitVod /\ [][NextWaitVod]_vars

\* One call of a wrapped coroutine, for each max_tries >= 1.
InitRetry ==
    /\ DsIdle
    /\ DmIdle
    /\ PdIdle
    /\ EvIdle
    /\ LpIdle
    /\ WvIdle
    /\ TbIdle
    /\ HxIdle
    /\ ds_segments = <<>>
    /\ ds_conc = N_CONCURRENT_DOWNLOADS
    /\ BusIdle
    /\ TrIdle /\ tr_kind = "regular"
    /\ SdIdle /\ sd_stream_type = "VOD"
    /\ LvIdle
    /\ GvIdle
    /\ \E n \in 1..MaxTries : RtNew(n)

RtOthers == <<dsVars, dmVars, busVars, trVars, whVars, rnVars, sdVars, lvVars, vwVars, gvVars, hxVars, tbVars, wvVars, lpVars, evVars, pdVars>>

NextRetry ==
    \/ (\E o \in FetchOutcomes : RtAttempt(o)) /\ UNCHANGED RtOthers

SpecRetry == InitRetry /\ [][NextRetry]_vars

\* A TwitchLivePlaylist updated again and again: with a first playlist,
\* then with playlists that start around the last segment stored (one
\* before it, at it, right after it, or one further, which is a gap), until
\* a stream that began at 100 has had MAX_SEGMENTS + MaxOver segments.
InitLivePlaylist ==
    /\ DsIdle
    /\ DmIdle
    /\ PdIdle
    /\ EvIdle
    /\ RtIdle
    /\ WvIdle
    /\ TbIdle
    /\ HxIdle
    /\ ds_segments = <<>>
    /\ ds_conc = N_CONCURRENT_DOWNLOADS
    /\ BusIdle
    /\ TrIdle /\ tr_kind = "regular"
    /\ SdIdle /\ sd_stream_type = "VOD"
    /\ LvIdle
    /\ GvIdle
    /\ LpIdle

LpOthers == <<dsVars, dmVars, busVars, trVars, whVars, rnVars, sdVars, gvVars, hxVars, tbVars, wvVars, rtVars, evVars, pdVars>>

LpFirstUpdate ==
    /\ lv_segments = <<>>
    /\ \E first_n \in FirstSeqs, count \in 0..MaxWindow : LpUpdate(first_n, count)
    /\ UNCHANGED LpOthers

LpNextUpdate ==
    /\ lv_segments # <<>>
    /\ lv_segments[Len(lv_segments)] < 100 + MAX_SEGMENTS + MaxOver
    /\ \E d \in 0..3, count \in 0..MaxWindow :
          /\ lv_segments[Len(lv_segments)] + d >= 1
          /\ LpUpdate(lv_segments[Len(lv_segments)] + d - 1, count)
    /\ UNCHANGED LpOthers

NextLivePlaylist ==
    \/ LpFirstUpdate
    \/ LpNextUpdate

SpecLivePlaylist == InitLivePlaylist /\ [][NextLivePlaylist]_vars

\* Class statements on the event classes defined so far.
InitEvents ==
    /\ DsIdle
    /\ DmIdle
    /\ PdIdle
    /\ LpIdle
    /\ RtIdle
    /\ WvIdle
    /\ TbIdle
    /\ HxIdle
    /\ ds_segments = <<>>
    /\ ds_conc = N_CONCURRENT_DOWNLOADS
    /\ BusIdle
    /\ TrIdle /\ tr_kind = "regular"
    /\ SdIdle /\ sd_stream_type = "VOD"
    /\ LvIdle
    /\ GvIdle
    /\ EvIdle

EvOthers == <<dsVars, dmVars, busVars, trVars, whVars, rnVars, sdVars, lvVars, vwVars, gvVars, hxVars, tbVars, wvVars, rtVars, lpVars, pdVars>>

NextEvents ==
    \/ (\E bases \in BaseLists(Len(ev_classes)) : EvDefine(bases)) /\ UNCHANGED EvOthers

SpecEvents == InitEvents /\ [][NextEvents]_vars

\* parse_duration on the strings of its pattern.
InitDuration ==
    /\ DsIdle
    /\ DmIdle
    /\ EvIdle
    /\ LpIdle
    /\ RtIdle
    /\ WvIdle
    /\ TbIdle
    /\ HxIdle
    /\ ds_segments = <<>>
    /\ ds_conc = N_CONCURRENT_DOWNLOADS
    /\ BusIdle
    /\ TrIdle /\ tr_kind = "regular"
    /\ SdIdle /\ sd_stream_type = "VOD"
    /\ LvIdle
    /\ GvIdle
    /\ \E h \in {None} \cup 0..MaxHours, m \in {None} \cup 0..MaxMinutes,
          s \in {None} \cup 0..MaxSeconds : PdNew(h, m, s)

PdOthers == <<dsVars, dmVars, busVars, trVars, whVars, rnVars, sdVars, lvVars, vwVars, gvVars, hxVars, tbVars, wvVars, rtVars, lpVars, evVars>>

NextDuration ==
    \/ PdParse /\ UNCHANGED PdOthers

SpecDuration == InitDuration /\ [][NextDuration]_vars

\* ------------------------------------------------------------------ claims

StrictlyIncreasing(s) == \A i \in 1..(Len(s) - 1) : s[i] < s[i + 1]

\* C1: over a whole download the segments written to the output file have
\* strictly increasing numbers: none is written twice, none after a
\* higher-numbered one.
C1_FileStrictlyIncreasing == StrictlyIncreasing(file)

IsPrefix(s, t) == Len(s) <= Len(t) /\ s = SubSeq(t, 1, Len(s))

\* C2: when no fetch of a call fails, download_segments writes the segment
\* bodies in the order of the input list (a prefix of it while the call
\* runs, all of it once it has returned), whatever the order in which the
\* fetches of a chunk complete, and returns the number of the last segment.
C2_WritesInInputOrder ==
    ds_failed = {} =>
        /\ IsPrefix(ds_written, ds_segments)
        /\ ds_pc = "returned" =>
              /\ ds_written = ds_segments
              /\ ds_last = IF ds_segments = <<>> THEN None
                            ELSE ds_segments[Len(ds_segments)]

\* A call over two chunks returned with every segment written although a
\* fetch completed before an earlier fetch of its chunk.
C2_Witness ==
    /\ ds_pc = "returned" /\ ds_failed = {} /\ ds_ooo
    /\ ds_chunks >= 2 /\ Len(ds_segments) >= 3
    /\ ds_written = ds_segments

FirstFailed == CHOOSE i \in ds_failed : \A j \in ds_failed : i <= j

\* C3: when a fetch has failed for good, the call writes only segments that
\* precede the failed one, starts no chunk after the failed one's, and
\* returns the number of the last segment written (None if none), every
\* segment up to that marker having been written.
C3_StopsAtFailedFetch ==
    (ds_pc = "returned" /\ ds_failed # {}) =>
        /\ IsPrefix(ds_written, SubSeq(ds_segments, 1, FirstFailed - 1))
        /\ ds_chunks = ((FirstFailed - 1) \div ds_conc) + 1
        /\ ds_last = IF ds_written = <<>> THEN None ELSE ds_written[Len(ds_written)]

\* The registrations that name s for the type of an event or for a base
\* class of it.
RegisteredFor(s, t) ==
    (IF "BaseEvent" \in Ancestors(t) THEN Count(s, subscribers["BaseEvent"]) ELSE 0)
    + (IF "StreamChanged" \in Ancestors(t) THEN Count(s, subscribers["StreamChanged"]) ELSE 0)
    + (IF "StreamOnline" \in Ancestors(t) THEN Count(s, subscribers["StreamOnline"]) ELSE 0)
    + (IF "StreamOffline" \in Ancestors(t) THEN Count(s, subscribers["StreamOffline"]) ELSE 0)

\* notify has gone through its list and is about to return.
NotifyDone ==
    bus_pc = "notify" /\ h_running = "none" /\ n_idx > Len(subscribers[n_event.type])

\* C4: when publish(e) has made its deliveries, every subscriber has been
\* handed e once for each of its registrations for type(e) or for an
\* ancestor type of type(e) up to BaseEvent, and the subscribers registered
\* for type(e) itself were called in registration order.
C4_DeliversToAncestors ==
    NotifyDone =>
        /\ \A s \in Subscribers : Count(s, delivered) = RegisteredFor(s, n_event.type)
        /\ IsPrefix(subscribers[n_event.type], delivered)

\* C5: when a handler has raised during a publish, the publish still
\* returns to the publisher without an exception and no subscriber of the
\* event is left out.
C5_HandlerExceptionContained ==
    h_raised => (pub_result = "returned" /\ missed = 0)

\* C6: publish does not wait for the handlers: whenever a subscriber's
\* handler is in progress, the publish that delivered the event has already
\* returned to the publisher.
C6_PublishDoesNotWait ==
    h_running # "none" => pub_result = "returned"

C8_RoundTripDeliversNothing ==
    round_trip.phase = "unsub" =>
        /\ Others(subscribers, round_trip.s) = round_trip.others
        /\ n_event.type = round_trip.x => Count(round_trip.s, delivered) = 0

\* C8: after subscribe(X) then unsubscribe(X) by one subscriber, the
\* subscriber holds as many registrations for X as before the subscribe, so
\* that a published event of type X is not handed to it if it held none,
\* and the registrations of the other subscribers are what they were.
C8_RoundTripRestores ==
    round_trip.phase = "unsub" =>
        /\ Count(round_trip.s, subscribers[round_trip.x]) = round_trip.count
        /\ Others(subscribers, round_trip.s) = round_trip.others
        /\ (round_trip.count = 0 /\ n_event.type = round_trip.x) =>
              Count(round_trip.s, delivered) = 0

\* After the round trip of a subscriber that held no registration for X, an
\* event of type X has been handed to the other subscriber only.
C8_Witness ==
    /\ round_trip.phase = "unsub" /\ round_trip.count = 0
    /\ NotifyDone /\ n_event.type = round_trip.x
    /\ delivered # <<>>
    /\ Count(round_trip.s, delivered) = 0

\* The events of one type the latest handler run published for a channel.
OutCount(c, t) == CountType(t, OutOf(c, tr_out))

\* C9: for each channel, a handler run of a tracker publishes StreamOnline
\* only when the status observed before was offline or unknown and no
\* StreamOnline is outstanding without a StreamOffline after it; a first
\* online observation publishes exactly one StreamOnline, and an
\* observation of the same stream as the one before publishes neither
\* StreamOnline nor StreamOffline.
C9_OnlineOnlyOnTransition ==
    \A c \in tr_observed :
        /\ OutCount(c, "StreamOnline") > 0 =>
              /\ obs_prev[c] \in {Unknown, None}
              /\ ~open_before[c]
        /\ (obs_prev[c] \in {Unknown, None} /\ obs_last[c] \in Streams) =>
              OutCount(c, "StreamOnline") = 1
        /\ (obs_last[c] = obs_prev[c] /\ obs_last[c] \in Streams) =>
              /\ OutCount(c, "StreamOnline") = 0
              /\ OutCount(c, "StreamOffline") = 0

\* C10: for each channel, last_event(channel) is the latest event the
\* tracker published for it (None only while it has published none), and a
\* handler run publishes no event equal to the last_event it found.
C10_LastEventIsLastPublished ==
    \A c \in Channels :
        /\ tr_last_event[c] = last_pub[c]
        /\ \A i \in 1..Len(tr_out) :
              tr_out[i].channel = c => tr_out[i].event # last_before[c]

\* C11: when a poll of the polling tracker finds a channel online that the
\* poll before found online too, it publishes one StreamChanged for the
\* channel if the stream value differs and nothing if it is the same.
C11_PollPublishesStreamChanged ==
    (tr_kind = "regular" /\ tr_pc = "running") =>
        \A c \in tr_observed :
            (obs_prev[c] \in Streams /\ obs_last[c] \in Streams) =>
                IF obs_prev[c] # obs_last[c]
                THEN OutCount(c, "StreamChanged") = 1
                ELSE OutOf(c, tr_out) = <<>>

\* C12: a handler run of a tracker publishes StreamOffline for a channel
\* only when the observation before found the channel online: not on a
\* first observation, not after an offline observation.
C12_OfflineOnlyAfterOnline ==
    \A c \in tr_observed :
        OutCount(c, "StreamOffline") > 0 => obs_prev[c] \in Streams

\* The latest request answered left _last_event and _event_ids as they
\* were and published nothing.
NoSideEffect ==
    tr_out = <<>> /\ tr_last_event = last_before /\ event_ids = ids_before

\* C13: a POST for a tracked channel whose X-Hub-Signature value is not the
\* digest of the body is answered 403 and has no side effect; a POST with
\* the right signature and a notification id is answered 200.
C13_BadSignatureRejected ==
    (wh_req.kind = "post" /\ wh_req.channel \in Channels) =>
        /\ wh_req.sig \in {"malformed", "wrong"} => (wh_response = 403 /\ NoSideEffect)
        /\ (wh_req.sig = "valid" /\ wh_req.id # NoId) => wh_response = 200

\* C14: a validly signed POST whose notification id is that of a
\* notification processed before is answered 200 and has no side effect.
C14_DuplicateIdIgnored ==
    (wh_req.kind = "post" /\ wh_req.sig = "valid" /\ wh_req.dup) =>
        (wh_response = 200 /\ NoSideEffect)

\* C15: a verification GET for a tracked channel that carries hub.challenge
\* is answered 200 and leaves the channel 'subscribed' for hub.mode
\* subscribe, 'unsubscribed' for unsubscribe and for denied; any other
\* hub.mode is answered 400 and changes nothing; the state of the other
\* channels is never changed.
C15_GetSetsState ==
    (wh_req.kind = "get" /\ wh_req.channel \in Channels /\ wh_req.challenge) =>
        /\ wh_req.mode = "subscribe" =>
              (subscription_statuses[wh_req.channel] = "subscribed" /\ wh_response = 200)
        /\ wh_req.mode \in {"unsubscribe", "denied"} =>
              (subscription_statuses[wh_req.channel] = "unsubscribed" /\ wh_response = 200)
        /\ wh_req.mode = "other" =>
              (subscription_statuses = statuses_before /\ wh_response = 400)
        /\ \A d \in Channels \ {wh_req.channel} :
              subscription_statuses[d] = statuses_before[d]

\* C16: when stop() of the webhook tracker has returned, an unsubscribe
\* request was posted for exactly the channels in state 'subscribed', and
\* the site is closed only once these requests have been posted.
C16_UnsubscribeThenShutdown ==
    tr_kind = "webhook" =>
        /\ stop_pc = "returned" =>
              unsub_posted = subscribed_channels(subscription_statuses)
        /\ wh_site = "closed" => stop_pc = "returned"

\* C18: once stop() has been called on a running tracker and has ended,
\* is_running is false (so that the next loop check of run() returns).
C18_StopUnsetsRunning ==
    stop_pc \in {"returned", "raised"} => ~is_running

\* C19: when the status query of a poll has raised, the polling tracker is
\* still in its run loop, which it leaves only after stop().
C19_PollErrorCaught ==
    tr_error = "query" => (tr_pc = "running" \/ (tr_pc = "returned" /\ ~is_running))

\* C17: while the webhook tracker runs, no channel is left longer than the
\* lease time after its latest subscribe request without the next one, and
\* the renewal task has not ended.
C17_RenewalWithinLease ==
    (tr_kind = "webhook" /\ tr_pc = "running" /\ is_running) =>
        /\ rn_pc # "dead"
        /\ \A c \in Channels :
              since_subscribe[c] # Unknown => since_subscribe[c] <= LeaseTicks

\* C20 as stated: two StreamOnline events with the same key make the stream
\* downloader go past its check, and call the download manager, once only,
\* and an event handled during the download of its stream starts nothing.
C20_OneDownloadPerKey ==
    /\ \A k \in StreamKeys :
          sd_events[k] >= 2 => (sd_started[k] <= 1 /\ dm_invoked[k] <= 1)
    /\ sd_last.was_downloading => ~sd_last.started

\* C20: a StreamOnline event handled while a download for the same key is
\* in progress starts no download and creates no temporary file, so that
\* at most one download per key is in progress and every temporary file
\* belongs to a handler that went past the check; the key is forgotten
\* when its download ends.
C20_OneDownloadAtATime ==
    /\ \A k \in StreamKeys :
          /\ InProgress(k) <= 1
          /\ k \in downloading_streams <=> InProgress(k) = 1
          /\ dm_invoked[k] <= sd_started[k]
    /\ sd_last.was_downloading => ~sd_last.started
    /\ tmp_files = sd_started["k1"] + sd_started["k2"]

\* A second event for a stream was handled while its download, for which
\* the manager was called once, is in progress.
C20_Witness ==
    /\ sd_last.was_downloading /\ ~sd_last.started
    /\ sd_events[sd_last.key] = 2
    /\ InProgress(sd_last.key) = 1
    /\ dm_invoked[sd_last.key] = 1 /\ tmp_files = 1

\* C21: every download of the stream downloader that returned was followed
\* by one call of the storage with its result, a download that raised by
\* none, and every temporary file created is still in place.
C21_FinalizerOncePerCompletion ==
    /\ \A k \in StreamKeys : finalizer_calls[k] = sd_returned[k]
    /\ tmp_files = sd_started["k1"] + sd_started["k2"]

\* C30: a key is in _downloading_streams exactly while a handler for it is
\* past the check and has not left its with statement, whether the
\* download returned or raised; the manager is only called for a key that
\* is in the set.
C30_DedupEntryWhileDownloading ==
    \A k \in StreamKeys :
        /\ k \in downloading_streams <=> \E i \in 1..Len(sd_handlers) : sd_handlers[i].key = k
        /\ dm_invoked[k] <= sd_started[k]
        /\ sd_started[k] = sd_returned[k] + sd_raised[k] + InProgress(k)

\* A download of a stream raised, one returned, and a later StreamOnline for
\* the same pair has started a third one.
C30_Witness ==
    \E k \in StreamKeys :
        /\ sd_raised[k] >= 1 /\ sd_returned[k] >= 1
        /\ k \in downloading_streams /\ InProgress(k) = 1
        /\ sd_started[k] = 3

C23_EndsWhileRecording ==
    (dm_check.recording /\ dm_check.streak = PLAYLIST_UPDATES_TO_FINISH) =>
        (dm_check.ended /\ Count("EndDownloading", dm_events) = 1)

\* C24: an archive download publishes BeginDownloading once before, and
\* EndDownloading once after, everything it reports about its progress
\* (the playlist updates, the segments written), and the download of a
\* finished video whose playlist is [0.ts, 1.ts, 2.ts] leaves the bodies of
\* 0, 1 and 2 in the file, in this order.
C24_BeginProgressEnd ==
    /\ ~dm_order.before_begin /\ ~dm_order.after_end
    /\ Count("BeginDownloading", dm_events) <= 1
    /\ Count("EndDownloading", dm_events) <= 1
    /\ dm_pc = "done" => dm_events = <<"BeginDownloading", "EndDownloading">>
    /\ (/\ dm_pc = "done" /\ after_segment = None /\ pl_len = 3 /\ ~dm_order.grown
        /\ ~pl_periodic /\ fetchErrors = 0)
          => file = <<0, 1, 2>>

\* C25: when an update of the live view finds that the snapshot starts
\* after the number that follows the last stored one, a SegmentGap event is
\* published, download_live is not ended by an exception and the view
\* keeps being updated.
C25_GapIsSurvived ==
    lv_gap =>
        /\ Count("SegmentGap", lv_events) >= 1
        /\ lv_error # "DownloadingError"
        /\ lv_task # "dead"

\* The numbers stored in the live view that follow the last one written.
LvPending ==
    SelectSeq(lv_segments, LAMBDA n : file = <<>> \/ n > file[Len(file)])

\* C26: when download_live has published EndDownloadingLive, no segment
\* stored in the view is still to be written.
C26_DrainsBeforeEnd ==
    Count("EndDownloadingLive", lv_events) >= 1 => LvPending = <<>>

\* The numbers stored in the view of the latest get_segments_after call.
VwStored == IF vw_kind = "vod" THEN Run(0, pl_len) ELSE lv_segments

\* C27: on a view that was updated, get_segments_after(m) with a number m
\* returns the stored numbers greater than m, in increasing order.
C27_SegmentsAfterMarker ==
    (vw_result.called /\ VwStored # <<>>) =>
        /\ ~vw_result.raised
        /\ vw_result.segments = SelectSeq(VwStored, LAMBDA n : n > vw_marker)

\* C29: once download_segments has written segments in an iteration of
\* download_archive, the cursor of the loop is the number of the last
\* segment written.
C29_CursorIsLastWritten ==
    (dm_pc = "loop" /\ ds_written # <<>>) => last_segment = ds_written[Len(ds_written)]

\* The videos returned, counted.
GvReturned == IF gv_videos = <<>> THEN 0
              ELSE LET RECURSIVE total(_)
                       total(i) == IF i = 0 THEN 0 ELSE gv_videos[i].count + total(i - 1)
                   IN total(Len(gv_videos))

\* No video is on two of the pages returned.
GvNoRepeat ==
    \A i, j \in 1..Len(gv_videos) :
        i < j => gv_videos[i].start + gv_videos[i].count <= gv_videos[j].start

\* C28: get_videos(limit=n) requests pages of at most 100 videos whose
\* sizes sum to at most n, and returns min(n, videos of the channel) videos,
\* none of them twice.
C28_GetVideosPages ==
    /\ gv_largest <= 100
    /\ gv_requested <= gv_limit
    /\ gv_pc = "returned" =>
          /\ GvReturned = Min(gv_limit, gv_total)
          /\ GvNoRepeat

\* C31: once stop() of the webhook tracker has returned, the renewal task
\* is cancelled: it is in none of its steps, and no step of it sends a
\* subscribe request.
C31_StopCancelsRenewal ==
    (tr_kind = "webhook" /\ stop_pc = "returned") =>
        rn_pc \notin {"register", "wait", "sleep"}

\* A _request call that has ended.
HxEnded == hx_pc \in {"returned", "raised"} /\ hx_call.answers # <<>>

C40_TokenCached ==
    hx_tok.returned # "unread" =>
        /\ hx_tok.cached = "unexpired" => ~hx_tok.authorized
        /\ hx_tok.returned # "expired"

\* Coroutines admitted by acquire so far.
TbAdmitted == {c \in Coros : tb_coro[c] \in {"holding", "done", "failed"}}

\* C33: every coroutine that waits in acquire is eventually admitted.
C33_EveryWaiterAdmitted ==
    \A c \in Coros : (tb_coro[c] = "waiting") ~> (c \in TbAdmitted)

\* C34 as stated: the token count is never negative, one coroutine at most
\* is admitted before the first update_tokens call, and after an
\* update_tokens call no more coroutines are admitted, until the next call,
\* than the tokens that call left.
C34_AdmitsWithinTokens ==
    /\ tb_tokens >= 0
    /\ tb_hist.left = None => tb_hist.admitted <= 1
    /\ tb_hist.left # None => tb_hist.admitted <= tb_hist.left

\* C34, amended: as above, with one more admission once the reset task has
\* put its token.
C34_AdmitsWithinTokensAndReset ==
    /\ tb_tokens >= 0
    /\ tb_hist.left = None => tb_hist.admitted <= 1
    /\ tb_hist.left # None =>
          tb_hist.admitted <= tb_hist.left + (IF tb_hist.fired THEN 1 ELSE 0)
    /\ tb_tokens + tb_hist.admitted <=
          (IF tb_hist.left = None THEN 1 ELSE tb_hist.left) + (IF tb_hist.fired THEN 1 ELSE 0)

\* An update_tokens call left one token, one coroutine was admitted with it
\* and another one waits.
C34_Witness ==
    /\ tb_hist.left = 1 /\ tb_hist.admitted = 1 /\ tb_tokens = 0 /\ ~tb_hist.fired
    /\ \E c \in Coros : tb_coro[c] = "waiting"

\* C35: download_archive is called only with the id of a video listed by
\* the latest poll and created less than a minute from started_at; every
\* poll that lists no such video publishes one AwaitingStream, and a sleep
\* lies between any two polls.
C35_WaitsForVod ==
    /\ (wv_pc = "archive") <=> (wv_vod # None)
    /\ wv_vod # None =>
          \E i \in 1..Len(wv_listing) :
              /\ wv_listing[i].id = wv_vod
              /\ wv_listing[i].created_at - wv_started_at < 60
              /\ wv_started_at - wv_listing[i].created_at < 60
    /\ wv_hist.awaiting = wv_hist.nomatch
    /\ wv_hist.polls <= wv_hist.sleeps + 1
    /\ wv_pc = "poll" => wv_hist.polls = wv_hist.sleeps
    /\ wv_hist.sleeps <= wv_hist.nomatch

\* A video was found at the second poll, after one AwaitingStream.
C35_Witness ==
    wv_pc = "archive" /\ wv_hist.awaiting = 1 /\ wv_hist.sleeps = 1 /\ Len(wv_listing) = 2

\* C36: a coroutine wrapped with max_tries = n >= 1 is attempted n times
\* at most; it ends at its first attempt that succeeds (returned) or raises
\* an exception that is not listed (raised at once), or at the n-th
\* attempt when all n raised a listed exception (the n-th is raised).
C36_RetriesUpToMaxTries ==
    /\ rt_task.tries <= rt_max
    /\ rt_task.st = "pending" =>
          rt_task.tries < rt_max /\ rt_hist.listed = rt_task.tries
    /\ rt_task.st = "done" =>
          rt_hist.last = "ok" /\ rt_hist.listed = rt_task.tries - 1
    /\ rt_task.st = "failed" =>
          \/ /\ rt_hist.last = "ClientResponseError"
             /\ rt_task.tries = rt_max /\ rt_hist.listed = rt_max
          \/ /\ rt_hist.last = "ClientPayloadError"
             /\ rt_hist.listed = rt_task.tries - 1
    /\ rt_hist.last = "ok" => rt_task.st = "done"
    /\ rt_hist.last = "ClientPayloadError" => rt_task.st = "failed"

\* Ten attempts raised a listed exception and the tenth was raised.
C36_Witness ==
    rt_max = 10 /\ rt_task = [st |-> "failed", tries |-> 10] /\ rt_hist.listed = 10

\* The numbers of s are consecutive.
Consecutive(s) == \A i \in 1..(Len(s) - 1) : s[i + 1] = s[i] + 1

\* The last number of the latest snapshot.
LpWindowLast == lp_call.first_n + lp_call.count - 1

\* C37: the segments stored by TwitchLivePlaylist.update are consecutive
\* and MAX_SEGMENTS at most; a snapshot that starts at or before the number
\* after the last stored one raises no gap, and stores exactly its entries
\* above the last stored one after those stored before.
C37_StoredAreConsecutive ==
    /\ Consecutive(lv_segments)
    /\ Len(lv_segments) <= 300
    /\ (lp_call.called /\ lp_prev.len > 0 /\ lp_call.first_n <= lp_prev.last + 1) =>
          /\ ~lp_call.raised
          /\ lv_segments[Len(lv_segments)] = Max(lp_prev.last, LpWindowLast)
          /\ Len(lv_segments) =
                Min(300, lp_prev.len + Max(0, LpWindowLast - lp_prev.last))
    /\ (lp_call.called /\ lp_prev.len > 0 /\ lp_call.first_n > lp_prev.last + 1) =>
          lp_call.raised /\ Len(lv_segments) = lp_prev.len

\* Windows 100..102 then 103..105 have stored 100..105.
C37_Witness ==
    /\ lv_segments = <<100, 101, 102, 103, 104, 105>>
    /\ lp_prev = [len |-> 3, last |-> 102]
    /\ lp_call = [first_n |-> 103, count |-> 3, raised |-> FALSE, called |-> TRUE]

\* C38: a class statement whose class is one or two levels below BaseEvent
\* is accepted (StreamOnline, below StreamChanged, is at level two), one
\* that is deeper raises ValueError.
C38_TwoLevelsAccepted ==
    ev_last # NoStatement => (ev_last.raised <=> ev_last.level > 2)

\* The number a part of the string stands for.
PdPart(v) == IF v = None THEN 0 ELSE v

\* C39: a string with at least one of its parts is parsed, without an
\* exception, to 3600*H + 60*M + S.
C39_ParsesTotalSeconds ==
    (pd_result.called /\ pd_string # [hours |-> None, minutes |-> None, seconds |-> None]) =>
        /\ ~pd_result.raised
        /\ pd_result.value = 3600 * PdPart(pd_string.hours) + 60 * PdPart(pd_string.minutes)
                                + PdPart(pd_string.seconds)

====
